---- MODULE Spec2Model ----
(***************************************************************************)
(* Model of the DeepFace microservice (services/deepface-service/app):     *)
(* the request handlers of main.py running as coroutines of one event      *)
(* loop, the lazy model loading of DeepFaceService and CLIPService, and    *)
(* the ordered detector-backend fallback, confidence filtering and face    *)
(* selection of DeepFaceService.extract_embedding (Spec, FairSpec: the     *)
(* extract-embedding, clip/embed and warm-up handlers; ServiceSpec: these  *)
(* and the hash/compute, clip/compare, compare-faces, health and           *)
(* model-info handlers); the compare-faces endpoint and                    *)
(* DeepFaceService.compare_embeddings applied to every request of a        *)
(* bounded set (CompareSpec); the steps of DeepFaceService.validate_image  *)
(* applied to every image of a bounded set (ImageSpec); and the hash       *)
(* comparisons of ImageHashService applied to every pair of a bounded set  *)
(* of hash strings (HashSpec).                                             *)
(*                                                                         *)
(* Confidences are scaled by 100 (0.5 is 50, 0.99 is 99).  An exception is *)
(* a record of its type and of the substrings, among those the code tests  *)
(* for, that its lower-cased message contains.  A face is identified by    *)
(* its position in the list the detector returned; its embedding and its   *)
(* bounding box are named by that position.                                *)
(***************************************************************************)
EXTENDS Integers, Sequences, FiniteSets, TLC

\* ---------------------------------------------------------------- bounds
NumRequests == 2
MaxFaces == 2

Requests == 1..NumRequests

\* ------------------------------------------------------- optional values
None == [isNone |-> TRUE, val |-> 0]
Some(v) == [isNone |-> FALSE, val |-> v]

\* ------------------------------------------------------------ exceptions
Exc(type, msg, n) == [type |-> type, msg |-> msg, n |-> n]
NoExc == Exc("none", {}, 0)

\* `"..." in str(e).lower()`
Contains(e, s) == s \in e.msg

\* The exceptions DeepFace.represent can raise for one backend: the
\* library's "Face could not be detected ..." ValueError, a ValueError that
\* says "no face detected ...", and an exception that is not a ValueError
\* and mentions neither faces nor detection.
BackendErrors ==
  { Exc("ValueError", {"face", "detect"}, 0),
    Exc("ValueError", {"face", "detect", "no face"}, 0),
    Exc("RuntimeError", {}, 0) }

\* image.save(tmp.name, ...) may fail with an OSError or a ValueError
SaveErrors == { Exc("OSError", {}, 0), Exc("ValueError", {}, 0) }

\* raise RuntimeError(f"Model initialization failed: {e}")
ModelInitError == Exc("RuntimeError", {}, 0)

\* raise ValueError(f"CLIP embedding extraction failed: {e}")
ClipExtractError == Exc("ValueError", {}, 0)

\* raise ValueError(f"pHash computation failed: {e}") and its three siblings
HashComputeError == Exc("ValueError", {}, 0)

\* what CLIPCompareResponse raises for a similarity that is not in [0, 1]:
\* pydantic's ValidationError, a ValueError
ResponseValidationError == Exc("ValueError", {"validation"}, 0)

\* the ValueError download_image raises from its except clauses
DownloadError == Exc("ValueError", {"download"}, 0)

\* raise ValueError("No faces detected in image (all backends failed)")
AllBackendsFailedError == Exc("ValueError", {"face", "detect", "no face"}, 0)

\* raise ValueError("No embedding generated")
NoEmbeddingError == Exc("ValueError", {}, 0)

\* raise ValueError("No faces detected in image")
NoFacesInResultError == Exc("ValueError", {"face", "detect", "no face"}, 0)

\* raise ValueError(f"Multiple faces detected ({len(confident_faces)})")
MultipleFacesError(n) == Exc("ValueError", {"multiple", "face", "detect"}, n)

\* ------------------------------------------------------ program constants
FACE_DETECTION_CONFIDENCE == 50
FilterDefaultConfidence == 99
SelectDefaultConfidence == 0
MetadataDefaultConfidence == 99

detector_backends == <<"retinaface", "mtcnn", "opencv">>

Models == {"deepface", "clip"}

\* ------------------------------------------------- what a detector returns
\* a face may come without "face_confidence"; 0.3 is below, 0.5 is at the
\* threshold
ConfValues == { None, Some(30), Some(50) }

FaceAt(i, c) == [embedding |-> i, facial_area |-> i, face_confidence |-> c]

\* every list of at most MaxFaces faces
RepresentResults ==
  UNION { { [i \in 1..n |-> FaceAt(i, cs[i])] : cs \in [1..n -> ConfValues] }
          : n \in 0..MaxFaces }

Returned(faces) == [kind |-> "return", faces |-> faces, exc |-> NoExc]
Raised(e) == [kind |-> "raise", faces |-> <<>>, exc |-> e]

RepresentOutcomes ==
  { Returned(fs) : fs \in RepresentResults } \cup { Raised(e) : e \in BackendErrors }

\* the local `result`: None before any backend returned, else a list
NoneResult == [isNone |-> TRUE, faces |-> <<>>]
ListResult(faces) == [isNone |-> FALSE, faces |-> faces]

\* Python truthiness of `result`
Truthy(res) == ~res.isNone /\ Len(res.faces) > 0

\* ------------------------------------------ helpers of extract_embedding
IsValidResult_never(res) == FALSE

\* if result and (not isinstance(result, list) or len(result) > 0)
IsValidResult(res) == Truthy(res) /\ Len(res.faces) > 0

\* if "face" in error_msg and "detect" in error_msg
IsNoFaceBackendError(e) == Contains(e, "face") /\ Contains(e, "detect")

NextBackendIndex_retry(i) == i

\* the `for backend in detector_backends` iteration, after `continue`
NextBackendIndex(i) == i + 1

PostLoopFails_onAnyError(res, err) == err # NoExc

\* if result is None or (isinstance(result, list) and len(result) == 0)
PostLoopFails(res, err) == res.isNone \/ Len(res.faces) = 0

PostLoopError_generic(err) == AllBackendsFailedError

\* if last_error: raise last_error / raise ValueError("No faces detected ...")
PostLoopError(err) == IF err # NoExc THEN err ELSE AllBackendsFailedError

FilterConfidence(face) ==
  IF face.face_confidence.isNone THEN FilterDefaultConfidence
  ELSE face.face_confidence.val

SelectConfidence(face) ==
  IF face.face_confidence.isNone THEN SelectDefaultConfidence
  ELSE face.face_confidence.val

MetadataConfidence(face) ==
  IF face.face_confidence.isNone THEN MetadataDefaultConfidence
  ELSE face.face_confidence.val

IsConfident(face) == FilterConfidence(face) >= FACE_DETECTION_CONFIDENCE

ConfidentFaces_strict(faces) ==
  LET strict(face) == FilterConfidence(face) > FACE_DETECTION_CONFIDENCE
      kept == SelectSeq(faces, strict)
  IN  IF Len(kept) = 0 THEN faces ELSE kept

\* confident_faces = [face for face in result if ... >= FACE_DETECTION_CONFIDENCE]
\* if not confident_faces: confident_faces = result
ConfidentFaces(faces) ==
  LET kept == SelectSeq(faces, IsConfident)
  IN  IF Len(kept) = 0 THEN faces ELSE kept

TooManyFaces_always(faces, enforce) == Len(faces) > 1

\* if len(confident_faces) > 1 and enforce_detection
TooManyFaces(faces, enforce) == Len(faces) > 1 /\ enforce

\* max(confident_faces, key=lambda f: f.get("face_confidence", 0)):
\* the first face whose key no other face exceeds
MaxByConfidence(faces) ==
  LET best == CHOOSE i \in 1..Len(faces) :
                /\ \A j \in 1..Len(faces) :
                     SelectConfidence(faces[j]) <= SelectConfidence(faces[i])
                /\ \A j \in 1..(i - 1) :
                     SelectConfidence(faces[j]) < SelectConfidence(faces[i])
  IN  faces[best]

NoMetadata ==
  [bound |-> FALSE, face_count |-> 0, face_confidence |-> 0,
   facial_area |-> 0, detector_backend |-> "None"]

FaceMetadata_filteredCount(res, faces, face, backend) ==
  [bound |-> TRUE, face_count |-> Len(faces),
   face_confidence |-> MetadataConfidence(face),
   facial_area |-> face.facial_area, detector_backend |-> backend]

\* metadata = {"face_count": len(result), "face_confidence": ...,
\*             "facial_area": ..., "detector_backend": used_backend}
FaceMetadata(res, faces, face, backend) ==
  [bound |-> TRUE, face_count |-> Len(res.faces),
   face_confidence |-> MetadataConfidence(face),
   facial_area |-> face.facial_area, detector_backend |-> backend]

\* ------------------------------------------------ floating-point numbers
\* A distance or a threshold is counted in hundredths, a similarity or a
\* confidence in thousandths (1.0 is One; a hundredth is 10 thousandths).
\* A float is a number, nan or +inf.
One == 1000
Num(v) == [k |-> "num", v |-> v]
NaN == [k |-> "nan", v |-> 0]
Inf == [k |-> "inf", v |-> 0]

\* a < b on floats: false as soon as one side is nan
FloatLess(a, b) ==
  /\ a.k # "nan" /\ b.k # "nan"
  /\ \/ a.k = "num" /\ b.k = "inf"
     \/ a.k = "num" /\ b.k = "num" /\ a.v < b.v

\* a / t for a numpy float a >= 0 in hundredths and a float t >= 0 in
\* hundredths, in thousandths: x / 0.0 is inf, 0.0 / 0.0 is nan (numpy warns
\* and goes on)
FloatDiv(a, t) ==
  IF a.k = "nan" THEN NaN
  ELSE IF a.k = "inf" THEN Inf
  ELSE IF t = 0 THEN (IF a.v = 0 THEN NaN ELSE Inf)
  ELSE Num((a.v * One) \div t)

\* abs(a - t)
FloatAbsDiff(a, t) ==
  IF a.k = "num" THEN Num(IF a.v >= t THEN a.v - t ELSE t - a.v) ELSE a

\* np.exp(-x) for x = n / d >= 0, to three decimals, x taken at its integer
\* part (at one half below 1)
ExpNegTable == <<367, 135, 49, 18, 6, 2>>
ExpNeg(n, d) ==
  IF n = 0 THEN One
  ELSE IF n < d THEN 606
  ELSE IF n \div d <= Len(ExpNegTable) THEN ExpNegTable[n \div d]
  ELSE 0

\* np.exp(-distance / threshold): -0.0 / 0.0 is nan, -x / 0.0 is -inf and
\* exp(-inf) is 0
ExpDecay(d, t) ==
  IF d.k = "nan" THEN NaN
  ELSE IF t = 0 THEN (IF d.v = 0 THEN NaN ELSE Num(0))
  ELSE Num(ExpNeg(d.v, t))

\* np.clip(x, 0, 1): nan stays nan
Clip01(x) ==
  IF x.k = "nan" THEN NaN
  ELSE IF x.k = "inf" THEN Num(One)
  ELSE Num(IF x.v < 0 THEN 0 ELSE IF x.v > One THEN One ELSE x.v)

\* min(1.0, x) of Python: x when x < 1.0, else 1.0 (also for nan and inf)
Min1(x) == IF FloatLess(x, Num(One)) THEN x ELSE Num(One)

\* 0 <= x <= 1 as pydantic's ge=0, le=1 see it: nan is in no range
InUnitRange(x) == x.k = "num" /\ 0 <= x.v /\ x.v <= One
NonNegative(x) == x.k = "inf" \/ (x.k = "num" /\ x.v >= 0)

\* ------------------------------------ DeepFaceService.compare_embeddings
EMBEDDING_DIMENSIONS == 512

DistanceMetric == {"cosine", "euclidean", "euclidean_l2"}

\* DEFAULT_THRESHOLDS.get(distance_metric, 0.68)
DEFAULT_THRESHOLDS(metric) ==
  CASE metric = "cosine" -> 68
    [] metric = "euclidean" -> 415
    [] metric = "euclidean_l2" -> 113
    [] OTHER -> 68

\* raise ValueError(f"Unknown distance metric: {distance_metric}")
UnknownMetricError == Exc("ValueError", {"unknown distance metric"}, 0)

\* the ValueError numpy or scipy raises for operands of different shapes
ShapeError == Exc("ValueError", {"shape"}, 0)

\* An embedding is known by its length and by whether all its components
\* are zero; `dist` is the distance, in the metric of the call, between the
\* two vectors when the metric defines one.
\* scipy's cosine: the dot product needs equal lengths; a zero vector gives 0/0
CosineDistance(e1, e2, dist) ==
  IF e1.len # e2.len THEN Raised(ShapeError)
  ELSE IF e1.zero \/ e2.zero THEN [kind |-> "return", d |-> NaN, zerodiv |-> TRUE]
  ELSE [kind |-> "return", d |-> Num(dist), zerodiv |-> FALSE]

\* emb1 - emb2 broadcasts a vector of length 1, and fails for other lengths
\* that differ
Broadcastable(e1, e2) == e1.len = e2.len \/ e1.len = 1 \/ e2.len = 1

\* np.linalg.norm(emb1 - emb2)
EuclideanDistance(e1, e2, dist) ==
  IF ~Broadcastable(e1, e2) THEN Raised(ShapeError)
  ELSE [kind |-> "return", d |-> Num(dist), zerodiv |-> FALSE]

\* emb / np.linalg.norm(emb) for both, then the norm of the difference: a
\* zero vector is divided by its zero norm and becomes nan
EuclideanL2Distance(e1, e2, dist) ==
  IF ~Broadcastable(e1, e2) THEN Raised(ShapeError)
  ELSE IF e1.zero \/ e2.zero THEN [kind |-> "return", d |-> NaN, zerodiv |-> TRUE]
  ELSE [kind |-> "return", d |-> Num(dist), zerodiv |-> FALSE]

ThresholdUsed_falsy(metric, threshold) ==
  IF threshold.isNone \/ threshold.val = 0 THEN DEFAULT_THRESHOLDS(metric)
  ELSE threshold.val

\* if threshold is None: threshold = self.DEFAULT_THRESHOLDS.get(...)
ThresholdUsed(metric, threshold) ==
  IF threshold.isNone THEN DEFAULT_THRESHOLDS(metric) ELSE threshold.val

IsSamePerson_inclusive(d, t) == d.k = "num" /\ d.v <= t

\* is_same_person = distance < threshold
IsSamePerson(d, t) == FloatLess(d, Num(t))

\* similarity = 1 - distance for cosine, np.exp(-distance / threshold)
\* otherwise; the result holds np.clip(similarity, 0, 1)
Similarity(metric, d, t) ==
  Clip01(IF metric = "cosine"
         THEN (IF d.k = "num" THEN Num(One - 10 * d.v) ELSE d)
         ELSE ExpDecay(d, t))

\* confidence = min(1.0, abs(distance - threshold) / threshold)
Confidence(d, t) == Min1(FloatDiv(FloatAbsDiff(d, t), t))

NoComparison ==
  [is_same_person |-> FALSE, distance |-> NaN, similarity |-> NaN,
   confidence |-> NaN, threshold_used |-> 0, distance_metric |-> ""]

KnownMetric_any(metric) == TRUE

\* the if / elif chain on distance_metric; its else branch raises
KnownMetric(metric) == metric \in DistanceMetric

\* compare_embeddings(embedding1, embedding2, distance_metric, threshold):
\* what it raises or returns, whether it reached the distance arithmetic
\* and whether a division by zero took place
compare_embeddings(e1, e2, metric, threshold, dist) ==
  IF ~KnownMetric(metric)
  THEN [raised |-> UnknownMetricError, arithmetic |-> FALSE, zerodiv |-> FALSE,
        result |-> NoComparison]
  ELSE LET lib == CASE metric = "cosine" -> CosineDistance(e1, e2, dist)
                    [] metric = "euclidean" -> EuclideanDistance(e1, e2, dist)
                    [] OTHER -> EuclideanL2Distance(e1, e2, dist)
       IN  IF lib.kind = "raise"
           THEN [raised |-> lib.exc, arithmetic |-> TRUE, zerodiv |-> FALSE,
                 result |-> NoComparison]
           ELSE LET t == ThresholdUsed(metric, threshold)
                IN  [raised |-> NoExc, arithmetic |-> TRUE,
                     zerodiv |-> lib.zerodiv \/ t = 0,
                     result |->
                       [is_same_person |-> IsSamePerson(lib.d, t),
                        distance |-> lib.d,
                        similarity |-> Similarity(metric, lib.d, t),
                        confidence |-> Confidence(lib.d, t),
                        threshold_used |-> t,
                        distance_metric |-> metric]]

\* ----------------------------------------------- image preprocessing
MIN_IMAGE_DIMENSION == 480
MAX_IMAGE_DIMENSION == 2048

\* raise ValueError(f"Invalid or corrupted image: {e}")
InvalidImageError == Exc("ValueError", {"invalid or corrupted image"}, 0)

\* An image is known by its size, its mode and the pixels of its four
\* corners (top-left, top-right, bottom-left, bottom-right).
ImageOf(w, h, mode) ==
  [width |-> w, height |-> h, mode |-> mode,
   tl |-> "a", tr |-> "b", bl |-> "c", br |-> "d"]

\* Image.transpose(method) of Pillow; ROTATE_90 turns counter-clockwise
Transpose(im, method) ==
  CASE method = "FLIP_LEFT_RIGHT" ->
         [im EXCEPT !.tl = im.tr, !.tr = im.tl, !.bl = im.br, !.br = im.bl]
    [] method = "FLIP_TOP_BOTTOM" ->
         [im EXCEPT !.tl = im.bl, !.tr = im.br, !.bl = im.tl, !.br = im.tr]
    [] method = "ROTATE_180" ->
         [im EXCEPT !.tl = im.br, !.tr = im.bl, !.bl = im.tr, !.br = im.tl]
    [] method = "ROTATE_90" ->
         [im EXCEPT !.width = im.height, !.height = im.width,
                    !.tl = im.tr, !.tr = im.br, !.bl = im.tl, !.br = im.bl]
    [] method = "ROTATE_270" ->
         [im EXCEPT !.width = im.height, !.height = im.width,
                    !.tl = im.bl, !.tr = im.tl, !.bl = im.br, !.br = im.tr]

rotation_map_flipOnly(orientation) ==
  IF orientation \in 2..8 THEN <<"FLIP_LEFT_RIGHT">> ELSE <<>>

\* rotation_map.get(orientation): the transposes to apply, none for 1 and
\* for a value that is no key
rotation_map(orientation) ==
  CASE orientation = 2 -> <<"FLIP_LEFT_RIGHT">>
    [] orientation = 3 -> <<"ROTATE_180">>
    [] orientation = 4 -> <<"FLIP_TOP_BOTTOM">>
    [] orientation = 5 -> <<"FLIP_LEFT_RIGHT", "ROTATE_90">>
    [] orientation = 6 -> <<"ROTATE_270">>
    [] orientation = 7 -> <<"FLIP_LEFT_RIGHT", "ROTATE_270">>
    [] orientation = 8 -> <<"ROTATE_90">>
    [] OTHER -> <<>>

\* what may go wrong while an image is validated: Image.open or verify
\* raises, image.getexif raises, the first or the second transpose raises,
\* image.convert raises, image.resize raises
Faults == {"none", "decode", "getexif", "transpose", "transpose2", "convert", "resize"}

\* _normalize_exif_orientation(image): `orientation` is None when the image
\* has no EXIF data or no Orientation tag; every exception is caught and the
\* local `image` is returned as it is by then
normalize_exif_orientation(image, orientation, fault) ==
  IF fault = "getexif" \/ orientation.isNone THEN image
  ELSE LET transform == rotation_map(orientation.val)
       IN  IF Len(transform) = 0 THEN image
           ELSE IF fault = "transpose" THEN image
           ELSE LET first == Transpose(image, transform[1])
                IN  IF Len(transform) = 1 THEN first
                    ELSE IF fault = "transpose2" THEN first
                    ELSE Transpose(first, transform[2])

\* ---- int(x * (c / m)) in IEEE-754 double precision, for 0 < x, m < 2^13
\* floor(log2(c / m)): the binary exponent of the quotient
RECURSIVE ExponentUp(_, _, _)
ExponentUp(c, m, e) == IF m * 2 * (2 ^ e) <= c THEN ExponentUp(c, m, e + 1) ELSE e
RECURSIVE ExponentDown(_, _, _)
ExponentDown(c, m, k) == IF c * (2 ^ k) >= m THEN k ELSE ExponentDown(c, m, k + 1)
QuotientExponent(c, m) == IF c >= m THEN ExponentUp(c, m, 0) ELSE 0 - ExponentDown(c, m, 1)

\* 2^s modulo m
RECURSIVE Pow2Mod(_, _)
Pow2Mod(s, m) == IF s = 0 THEN 1 % m ELSE (2 * Pow2Mod(s - 1, m)) % m

\* c / m rounded to the nearest double (ties to even) is M * 2^(e - 52);
\* this is M * m - c * 2^(52 - e), the rounding error counted in units of
\* 2^(e - 52) / m
QuotientError(c, m) ==
  LET s == 52 - QuotientExponent(c, m)
      rem == ((c % m) * Pow2Mod(s, m)) % m
      rem2 == ((c % (2 * m)) * Pow2Mod(s, 2 * m)) % (2 * m)
      floorOdd == rem2 >= m
  IN  IF rem = 0 THEN 0
      ELSE IF 2 * rem < m THEN 0 - rem
      ELSE IF 2 * rem > m THEN m - rem
      ELSE IF floorOdd THEN m - rem ELSE 0 - rem

RECURSIVE Log2Floor(_)
Log2Floor(n) == IF n < 2 THEN 0 ELSE 1 + Log2Floor(n \div 2)

ScaledInt_exact(x, c, m) == (x * c) \div m

\* scale_factor = c / m; int(x * scale_factor): the product is rounded to
\* the nearest double and truncated.  When x * c / m is no integer the
\* rounding cannot change the integer part; when it is an integer Q, the
\* product falls below Q, and is truncated to Q - 1, exactly when the
\* quotient was rounded down by more than half the gap between Q and the
\* double before it
ScaledInt(x, c, m) ==
  LET Q == (x * c) \div m
      f == (x * c) % m
      err == QuotientError(c, m)
      gap == 2 ^ (Log2Floor(Q) - QuotientExponent(c, m))
      k == IF Q = 2 ^ Log2Floor(Q) THEN 4 ELSE 2
  IN  IF f = 0 /\ err < 0 /\ k * x * (0 - err) > m * gap THEN Q - 1 ELSE Q

Min(a, b) == IF a <= b THEN a ELSE b
Max(a, b) == IF a >= b THEN a ELSE b

\* _enforce_dimensions(image): the image it returns, or the exception
\* image.resize raised (nothing catches it here)
enforce_dimensions(image, fault) ==
  LET width == image.width
      height == image.height
      min_dim == Min(width, height)
      max_dim == Max(width, height)
      up == [image EXCEPT !.width = ScaledInt(width, MIN_IMAGE_DIMENSION, min_dim),
                          !.height = ScaledInt(height, MIN_IMAGE_DIMENSION, min_dim)]
      down == [image EXCEPT !.width = ScaledInt(width, MAX_IMAGE_DIMENSION, max_dim),
                            !.height = ScaledInt(height, MAX_IMAGE_DIMENSION, max_dim)]
      resized(im) == IF fault = "resize"
                     THEN [raised |-> TRUE, image |-> image, resize |-> "failed"]
                     ELSE [raised |-> FALSE, image |-> im, resize |-> "done"]
  IN  IF min_dim < MIN_IMAGE_DIMENSION /\ min_dim > 0
      THEN resized(up)
      ELSE IF max_dim > MAX_IMAGE_DIMENSION
      THEN IF Min(down.width, down.height) >= MIN_IMAGE_DIMENSION
           THEN resized(down)
           ELSE [raised |-> FALSE, image |-> image, resize |-> "skipped"]
      ELSE [raised |-> FALSE, image |-> image, resize |-> "none"]

\* -------------------------------------------------------- ImageHashService
\* A hash string is the sequence of its hexadecimal digits, each 0..15.
\* int(hexstr, 16)
RECURSIVE HexValue(_)
HexValue(h) == IF Len(h) = 0 THEN 0 ELSE 16 * HexValue(SubSeq(h, 1, Len(h) - 1)) + h[Len(h)]

\* int(numpy.sqrt(n))
RECURSIVE IntSqrtFrom(_, _)
IntSqrtFrom(n, k) == IF (k + 1) * (k + 1) > n THEN k ELSE IntSqrtFrom(n, k + 1)

\* len(bin(v)) - 2: the digits of v in base two, one digit for 0
BinaryDigits(v) == IF v = 0 THEN 1 ELSE Log2Floor(v) + 1

\* '{:0>{width}b}'.format(v, width=w) as the list of bool(int(d)): the binary
\* digits of v, most significant first, padded with zeros on the left to w
BinaryArray(v, w) ==
  LET n == Max(w, BinaryDigits(v))
  IN  [i \in 1..n |-> (v \div (2 ^ (n - i))) % 2 = 1]

\* raise ValueError(f"Hamming distance computation failed: {e}") and
\* raise ValueError(f"Hash similarity computation failed: {e}")
HashCompareError == Exc("ValueError", {}, 0)

\* imagehash.hex_to_hash(hexstr): hash_size = int(sqrt(len(hexstr) * 4)), the
\* bits of int(hexstr, 16) in rows of hash_size; int() raises for the empty
\* string
hex_to_hash(hexstr) ==
  IF Len(hexstr) = 0
  THEN [raised |-> TRUE, hash |-> <<>>]
  ELSE LET hash_size == IntSqrtFrom(Len(hexstr) * 4, 0)
       IN  [raised |-> FALSE,
            hash |-> BinaryArray(HexValue(hexstr), hash_size * hash_size)]

CountDiffering_setBits(a, b) == Cardinality({ i \in 1..Len(a) : a[i] })

\* numpy.count_nonzero(self.hash.flatten() != other.hash.flatten())
CountDiffering(a, b) == Cardinality({ i \in 1..Len(a) : a[i] # b[i] })

\* ImageHash.__sub__: TypeError when the two hashes differ in size
ImageHashSub(h1, h2) ==
  IF Len(h1.hash) # Len(h2.hash)
  THEN [raised |-> TRUE, value |-> 0]
  ELSE [raised |-> FALSE, value |-> CountDiffering(h1.hash, h2.hash)]

\* ImageHashService.hamming_distance(hash1, hash2): any exception of the
\* conversion or of the subtraction becomes ValueError
hamming_distance(hash1, hash2) ==
  LET h1 == hex_to_hash(hash1)
      h2 == hex_to_hash(hash2)
  IN  IF h1.raised \/ h2.raised \/ ImageHashSub(h1, h2).raised
      THEN [raised |-> HashCompareError, value |-> 0]
      ELSE [raised |-> NoExc, value |-> ImageHashSub(h1, h2).value]

\* ImageHashService.hash_similarity(hash1, hash2), in thousandths:
\* max(0.0, min(1.0, 1 - (distance / max_distance))) with
\* max_distance = len(h1.hash.flatten())
hash_similarity(hash1, hash2) ==
  LET h1 == hex_to_hash(hash1)
      h2 == hex_to_hash(hash2)
  IN  IF h1.raised \/ h2.raised \/ ImageHashSub(h1, h2).raised
      THEN [raised |-> HashCompareError, value |-> 0]
      ELSE LET distance == ImageHashSub(h1, h2).value
               max_distance == Len(h1.hash)
               similarity == One - ((One * distance) \div max_distance)
           IN  [raised |-> NoExc, value |-> Max(0, Min(One, similarity))]

\* ------------------------------------------------ responses of the handlers
NoResponse ==
  [sent |-> FALSE, ok |-> FALSE, code |-> "", details |-> None,
   embedding |-> 0, face_count |-> 0, face_confidence |-> 0, facial_area |-> 0]

\* create_error_response(code, message, details)
ErrorResponse(code, details) ==
  [sent |-> TRUE, ok |-> FALSE, code |-> code, details |-> details,
   embedding |-> 0, face_count |-> 0, face_confidence |-> 0, facial_area |-> 0]

\* ExtractEmbeddingResponse(embedding, face_count, face_confidence, facial_area)
EmbeddingResponse(emb, meta) ==
  [sent |-> TRUE, ok |-> TRUE, code |-> "", details |-> None,
   embedding |-> emb, face_count |-> meta.face_count,
   face_confidence |-> meta.face_confidence, facial_area |-> meta.facial_area]

\* CLIPEmbedResponse / the dictionary warm_up_models returns
PlainResponse ==
  [sent |-> TRUE, ok |-> TRUE, code |-> "", details |-> None,
   embedding |-> 0, face_count |-> 0, face_confidence |-> 0, facial_area |-> 0]

\* the `except ValueError` / `except Exception` clauses around
\* service.extract_embedding in the extract-embedding handler; `meta` is the
\* handler's local `metadata`, unbound when the call raised
ExtractErrorResponse(e, meta) ==
  IF e.type = "ValueError"
  THEN IF Contains(e, "no face") \/ Contains(e, "could not find")
       THEN ErrorResponse("NO_FACE_DETECTED", None)
       ELSE IF Contains(e, "multiple")
            THEN ErrorResponse("MULTIPLE_FACES_DETECTED",
                               IF meta.bound THEN Some(meta.face_count) ELSE None)
            ELSE ErrorResponse("MODEL_ERROR", None)
  ELSE ErrorResponse("INTERNAL_ERROR", None)

\* class ErrorCode(str, Enum)
ErrorCode ==
  {"NO_FACE_DETECTED", "MULTIPLE_FACES_DETECTED", "INVALID_IMAGE", "MODEL_ERROR",
   "INVALID_EMBEDDING", "DOWNLOAD_FAILED", "INTERNAL_ERROR", "CLIP_ERROR",
   "HASH_ERROR"}

ClipErrorResponse_noOuterExcept(e) ==
  IF e.type = "ValueError"
  THEN ErrorResponse("CLIP_ERROR", None)
  ELSE NoResponse

\* the `except ValueError` / `except Exception` clauses around
\* clip_service.extract_embedding in the clip/embed handler
ClipErrorResponse(e) ==
  IF e.type = "ValueError"
  THEN ErrorResponse("CLIP_ERROR", None)
  ELSE ErrorResponse("INTERNAL_ERROR", None)

\* the `except ValueError` / `except Exception` clauses around
\* hash_service.compute_all_hashes in the hash/compute handler
HashErrorResponse(e) ==
  IF e.type = "ValueError"
  THEN ErrorResponse("HASH_ERROR", None)
  ELSE ErrorResponse("INTERNAL_ERROR", None)

\* the `except ValueError` clause around download_image and validate_image
\* in the clip/compare handler
CompareLoadErrorResponse(e) ==
  IF e.type = "ValueError"
  THEN ErrorResponse("DOWNLOAD_FAILED", None)
  ELSE ErrorResponse("INTERNAL_ERROR", None)

\* the outer `except Exception` clause of a handler
UnexpectedErrorResponse(e) == ErrorResponse("INTERNAL_ERROR", None)

LoopOwnerDuringLoad_released(r) == 0

\* _ensure_model_loaded is a plain synchronous method called from an
\* `async def` handler without an await: the coroutine keeps the event
\* loop for the whole load
LoopOwnerDuringLoad(r) == r

\* ------------------------------------------------------------------ state
VARIABLES
  running,          \* the coroutine that holds the event loop, 0 when none
  model_loaded,     \* _model_loaded of DeepFaceService and of CLIPService
  load_count,       \* history: loads of each model that completed
  pc,               \* where each request's handler stands
  endpoint,         \* the endpoint each request was sent to
  enforce_detection,\* request.enforce_detection
  idx,              \* position of the fallback loop in detector_backends
  result,           \* local `result` of extract_embedding
  last_error,       \* local `last_error` of extract_embedding
  last_error_from,  \* history: index of the backend that raised last_error
  used_backend,     \* local `used_backend` of extract_embedding
  calls,            \* history: the DeepFace.represent calls of this request
  tmp_file,         \* the temporary JPEG: "none", "exists" or "deleted"
  exc,              \* the exception the service call raised, NoExc if none
  confident_faces,  \* local `confident_faces` of extract_embedding
  embedding,        \* handler local `embedding`, 0 while unbound
  metadata,         \* handler local `metadata`, NoMetadata while unbound
  warm,             \* local `results` of warm_up_models
  response,         \* what the handler returns
  download,         \* how download_image ended, while image_bytes is in use
  cmp,              \* a compare-faces request, a compare_embeddings call
  img,              \* an image going through validate_image
  hsh               \* two hash strings and what a comparison of them gave

globals == <<model_loaded, load_count>>
loopLocals == <<idx, result, last_error, last_error_from, used_backend, calls>>
callLocals == <<exc, confident_faces, embedding, metadata>>
vars == <<running, model_loaded, load_count, pc, endpoint, enforce_detection,
          idx, result, last_error, last_error_from, used_backend, calls,
          tmp_file, exc, confident_faces, embedding, metadata, warm, response,
          download, cmp, img, hsh>>
serviceVars == <<running, model_loaded, load_count, pc, endpoint, enforce_detection,
                 idx, result, last_error, last_error_from, used_backend, calls,
                 tmp_file, exc, confident_faces, embedding, metadata, warm,
                 response, download>>
\* what the steps of the image handlers leave alone
others == <<download, cmp, img, hsh>>
pureVars == <<cmp, img, hsh>>

NoWarm == [deepface |-> "", clip |-> ""]

\* the compare-faces endpoint before a request
NoCall ==
  [raised |-> NoExc, arithmetic |-> FALSE, zerodiv |-> FALSE, result |-> NoComparison]

NoCompareResponse == [sent |-> FALSE, status |-> 0, code |-> "", body |-> NoComparison]

NoCompareRequest ==
  [embedding1 |-> [len |-> 0, zero |-> TRUE], embedding2 |-> [len |-> 0, zero |-> TRUE],
   distance_metric |-> "", threshold |-> None, dist |-> 0]

NoCompare ==
  [phase |-> "none", request |-> NoCompareRequest, called |-> FALSE,
   call |-> NoCall, response |-> NoCompareResponse]

\* no image is being validated
NoImage ==
  [phase |-> "none", orientation |-> None, fault |-> "none",
   image |-> ImageOf(0, 0, ""), pre |-> ImageOf(0, 0, ""),
   resize |-> "", raised |-> NoExc]

\* no hash comparison is under way
NoHash == [phase |-> "none", hash1 |-> <<>>, hash2 |-> <<>>, raised |-> NoExc, value |-> 0]

ServiceInit ==
  /\ running = 0
  /\ model_loaded = [m \in Models |-> FALSE]
  /\ load_count = [m \in Models |-> 0]
  /\ pc = [r \in Requests |-> "idle"]
  /\ endpoint = [r \in Requests |-> "none"]
  /\ enforce_detection = [r \in Requests |-> FALSE]
  /\ idx = [r \in Requests |-> 0]
  /\ result = [r \in Requests |-> NoneResult]
  /\ last_error = [r \in Requests |-> NoExc]
  /\ last_error_from = [r \in Requests |-> 0]
  /\ used_backend = [r \in Requests |-> "None"]
  /\ calls = [r \in Requests |-> <<>>]
  /\ tmp_file = [r \in Requests |-> "none"]
  /\ exc = [r \in Requests |-> NoExc]
  /\ confident_faces = [r \in Requests |-> <<>>]
  /\ embedding = [r \in Requests |-> 0]
  /\ metadata = [r \in Requests |-> NoMetadata]
  /\ warm = [r \in Requests |-> NoWarm]
  /\ response = [r \in Requests |-> NoResponse]
  /\ download = [r \in Requests |-> "none"]

Init ==
  /\ ServiceInit
  /\ cmp = NoCompare
  /\ img = NoImage
  /\ hsh = NoHash

\* --------------------------------------------------- start of a request
\* POST /api/v1/extract-embedding
StartExtract(r) ==
  /\ pc[r] = "idle" /\ running = 0
  /\ endpoint' = [endpoint EXCEPT ![r] = "extract_embedding"]
  /\ pc' = [pc EXCEPT ![r] = "get_bytes"]
  /\ running' = r
  /\ UNCHANGED <<globals, enforce_detection, loopLocals, callLocals, tmp_file,
                 warm, response>>
  /\ UNCHANGED others

\* POST /api/v1/clip/embed
StartClipEmbed(r) ==
  /\ pc[r] = "idle" /\ running = 0
  /\ endpoint' = [endpoint EXCEPT ![r] = "clip_embed"]
  /\ pc' = [pc EXCEPT ![r] = "get_bytes"]
  /\ running' = r
  /\ UNCHANGED <<globals, enforce_detection, loopLocals, callLocals, tmp_file,
                 warm, response>>
  /\ UNCHANGED others

\* POST /api/v1/warm-up
StartWarmUp(r) ==
  /\ pc[r] = "idle" /\ running = 0
  /\ endpoint' = [endpoint EXCEPT ![r] = "warm_up"]
  /\ pc' = [pc EXCEPT ![r] = "wu_deepface"]
  /\ running' = r
  /\ UNCHANGED <<globals, enforce_detection, loopLocals, callLocals, tmp_file,
                 warm, response>>
  /\ UNCHANGED others

\* POST /api/v1/hash/compute
StartHashCompute(r) ==
  /\ pc[r] = "idle" /\ running = 0
  /\ endpoint' = [endpoint EXCEPT ![r] = "hash_compute"]
  /\ pc' = [pc EXCEPT ![r] = "get_bytes"]
  /\ running' = r
  /\ UNCHANGED <<globals, enforce_detection, loopLocals, callLocals, tmp_file,
                 warm, response>>
  /\ UNCHANGED others

\* POST /api/v1/clip/compare: the handler runs up to
\* `await deepface_service.download_image(request.image1_url)` and is suspended
StartClipCompare(r) ==
  /\ pc[r] = "idle" /\ running = 0
  /\ endpoint' = [endpoint EXCEPT ![r] = "clip_compare"]
  /\ pc' = [pc EXCEPT ![r] = "cc_await1"]
  /\ UNCHANGED <<running, globals, enforce_detection, loopLocals, callLocals,
                 tmp_file, warm, response>>
  /\ UNCHANGED others

\* ------------------------------------------------ obtaining the image bytes
\* image_bytes = await service.download_image(...): the coroutine is suspended
GetBytesUrl(r) ==
  /\ pc[r] = "get_bytes" /\ running = r
  /\ pc' = [pc EXCEPT ![r] = "await_download"]
  /\ running' = 0
  /\ UNCHANGED <<globals, endpoint, enforce_detection, loopLocals, callLocals,
                 tmp_file, warm, response>>
  /\ UNCHANGED others

\* how `await client.get(...)` and the lines after it can end: a 2xx response
\* with an image content type, a 2xx response with another content type,
\* httpx.TimeoutException, httpx.HTTPStatusError from raise_for_status(), or
\* any other exception
DownloadOutcomes == {"image", "not_image", "timeout", "http_status", "error"}

DownloadFails_never(o) == FALSE

\* the three except clauses of download_image raise ValueError; a content
\* type that does not start with "image/" is only logged
DownloadFails(o) == o \in {"timeout", "http_status", "error"}

\* download_image returns the bytes or raises ValueError, which the handler
\* answers with DOWNLOAD_FAILED
DownloadDone(r) ==
  /\ pc[r] = "await_download" /\ running = 0
  /\ running' = r
  /\ \E o \in DownloadOutcomes :
       /\ download' = [download EXCEPT ![r] = o]
       /\ IF ~DownloadFails(o)
          THEN /\ pc' = [pc EXCEPT ![r] = "validate"]
               /\ UNCHANGED response
          ELSE /\ pc' = [pc EXCEPT ![r] = "ret"]
               /\ response' = [response EXCEPT ![r] = ErrorResponse("DOWNLOAD_FAILED", None)]
  /\ UNCHANGED <<globals, endpoint, enforce_detection, loopLocals, callLocals,
                 tmp_file, warm, pureVars>>

\* image_bytes = service.decode_base64_image(...), which may raise ValueError
GetBytesBase64(r) ==
  /\ pc[r] = "get_bytes" /\ running = r
  /\ \E ok \in BOOLEAN :
       IF ok
       THEN /\ pc' = [pc EXCEPT ![r] = "validate"]
            /\ UNCHANGED response
       ELSE /\ pc' = [pc EXCEPT ![r] = "ret"]
            /\ response' = [response EXCEPT ![r] = ErrorResponse("INVALID_IMAGE", None)]
  /\ UNCHANGED <<running, globals, endpoint, enforce_detection, loopLocals,
                 callLocals, tmp_file, warm>>
  /\ UNCHANGED others

\* image = service.validate_image(image_bytes), which may raise ValueError;
\* then service.extract_embedding(image, enforce_detection=
\* request.enforce_detection, ...), clip_service.extract_embedding(image) or
\* hash_service.compute_all_hashes(image) is entered (the request's flag is
\* drawn where the handler reads it); image_bytes is not used after this
ValidateImage(r) ==
  /\ pc[r] = "validate" /\ running = r
  /\ \/ /\ endpoint[r] = "extract_embedding"
        /\ pc' = [pc EXCEPT ![r] = "df_ensure"]
        /\ \E enf \in BOOLEAN :
             enforce_detection' = [enforce_detection EXCEPT ![r] = enf]
        /\ UNCHANGED response
     \/ /\ endpoint[r] = "clip_embed"
        /\ pc' = [pc EXCEPT ![r] = "clip_ensure"]
        /\ UNCHANGED <<response, enforce_detection>>
     \/ /\ endpoint[r] = "hash_compute"
        /\ pc' = [pc EXCEPT ![r] = "hash"]
        /\ UNCHANGED <<response, enforce_detection>>
     \/ /\ pc' = [pc EXCEPT ![r] = "ret"]
        /\ response' = [response EXCEPT ![r] = ErrorResponse("INVALID_IMAGE", None)]
        /\ UNCHANGED enforce_detection
  /\ download' = [download EXCEPT ![r] = "none"]
  /\ UNCHANGED <<running, globals, endpoint, loopLocals, callLocals, tmp_file, warm>>
  /\ UNCHANGED pureVars

\* --------------------------------------------------------- model loading
EnsurePc(m) == IF m = "deepface" THEN "df_ensure" ELSE "clip_ensure"
LoadingPc(m) == IF m = "deepface" THEN "df_loading" ELSE "clip_loading"
WarmPc(m) == IF m = "deepface" THEN "wu_deepface" ELSE "wu_clip"
LoadedPc_deepfaceOnly(ep, m) ==
  IF ep = "extract_embedding" THEN "create_tmp"
  ELSE IF ep = "clip_embed" THEN "clip_encode"
  ELSE IF ep = "clip_compare" THEN "cc_encode1"
  ELSE "ret"

\* where the caller of _ensure_model_loaded goes on when it returns
LoadedPc(ep, m) ==
  IF ep = "extract_embedding" THEN "create_tmp"
  ELSE IF ep = "clip_embed" THEN "clip_encode"
  ELSE IF ep = "clip_compare" THEN "cc_encode1"
  ELSE IF m = "deepface" THEN "wu_clip" ELSE "ret"

EnsureModelLoaded_unchecked(r, m) ==
  /\ pc[r] = EnsurePc(m) /\ running = r
  /\ pc' = [pc EXCEPT ![r] = LoadedPc(endpoint[r], m)]
  /\ UNCHANGED <<running, globals, endpoint, enforce_detection, loopLocals,
                 callLocals, tmp_file, warm, response>>
  /\ UNCHANGED others

\* self._ensure_model_loaded() as the first statement of extract_embedding:
\* `if self._model_loaded: return`, else the load starts
EnsureModelLoaded(r, m) ==
  /\ pc[r] = EnsurePc(m) /\ running = r
  /\ IF model_loaded[m]
     THEN /\ pc' = [pc EXCEPT ![r] = LoadedPc(endpoint[r], m)]
          /\ UNCHANGED running
     ELSE /\ pc' = [pc EXCEPT ![r] = LoadingPc(m)]
          /\ running' = LoopOwnerDuringLoad(r)
  /\ UNCHANGED <<globals, endpoint, enforce_detection, loopLocals, callLocals,
                 tmp_file, warm, response>>
  /\ UNCHANGED others

\* warm_up_models: `if service.is_model_loaded: "already_loaded"`, else
\* service._ensure_model_loaded()
WarmCheck(r, m) ==
  /\ pc[r] = WarmPc(m) /\ running = r
  /\ IF model_loaded[m]
     THEN /\ warm' = [warm EXCEPT ![r][m] = "already_loaded"]
          /\ pc' = [pc EXCEPT ![r] = LoadedPc("warm_up", m)]
          /\ response' = [response EXCEPT ![r] =
                            IF m = "clip" THEN PlainResponse ELSE @]
          /\ UNCHANGED running
     ELSE /\ pc' = [pc EXCEPT ![r] = LoadingPc(m)]
          /\ running' = LoopOwnerDuringLoad(r)
          /\ UNCHANGED <<warm, response>>
  /\ UNCHANGED <<globals, endpoint, enforce_detection, loopLocals, callLocals,
                 tmp_file>>
  /\ UNCHANGED others

LoadModel_flagFirst(r, m) ==
  /\ pc[r] = LoadingPc(m) /\ running = LoopOwnerDuringLoad(r)
  /\ running' = r
  /\ model_loaded' = [model_loaded EXCEPT ![m] = TRUE]
  /\ exc' = [exc EXCEPT ![r] = ModelInitError]
  /\ response' = [response EXCEPT ![r] = UnexpectedErrorResponse(ModelInitError)]
  /\ pc' = [pc EXCEPT ![r] = "ret"]
  /\ UNCHANGED <<load_count, endpoint, enforce_detection, loopLocals, confident_faces,
                 embedding, metadata, tmp_file, warm>>
  /\ UNCHANGED others

\* the body of _ensure_model_loaded after the flag test: the load either
\* completes and sets _model_loaded, or raises RuntimeError
LoadModel(r, m) ==
  /\ pc[r] = LoadingPc(m) /\ running = LoopOwnerDuringLoad(r)
  /\ running' = r
  /\ \E ok \in BOOLEAN :
       IF ok
       THEN /\ model_loaded' = [model_loaded EXCEPT ![m] = TRUE]
            /\ load_count' = [load_count EXCEPT ![m] = @ + 1]
            /\ pc' = [pc EXCEPT ![r] = LoadedPc(endpoint[r], m)]
            /\ warm' = [warm EXCEPT ![r][m] =
                          IF endpoint[r] = "warm_up" THEN "loaded" ELSE @]
            /\ response' = [response EXCEPT ![r] =
                              IF endpoint[r] = "warm_up" /\ m = "clip"
                              THEN PlainResponse ELSE @]
            /\ UNCHANGED exc
       ELSE /\ UNCHANGED globals
            /\ IF endpoint[r] = "warm_up"
               THEN /\ warm' = [warm EXCEPT ![r][m] = "failed"]
                    /\ pc' = [pc EXCEPT ![r] = LoadedPc("warm_up", m)]
                    /\ response' = [response EXCEPT ![r] =
                                      IF m = "clip" THEN PlainResponse ELSE @]
                    /\ UNCHANGED exc
               ELSE /\ exc' = [exc EXCEPT ![r] = ModelInitError]
                    /\ response' = [response EXCEPT ![r] =
                                      IF endpoint[r] = "extract_embedding"
                                      THEN ExtractErrorResponse(ModelInitError, metadata[r])
                                      ELSE ClipErrorResponse(ModelInitError)]
                    /\ pc' = [pc EXCEPT ![r] = "ret"]
                    /\ UNCHANGED warm
  /\ UNCHANGED <<endpoint, enforce_detection, loopLocals, confident_faces,
                 embedding, metadata, tmp_file>>
  /\ UNCHANGED others

\* ------------------------------------- DeepFaceService.extract_embedding
\* with tempfile.NamedTemporaryFile(suffix=".jpg", delete=False) as tmp
CreateTmp(r) ==
  /\ pc[r] = "create_tmp" /\ running = r
  /\ tmp_file' = [tmp_file EXCEPT ![r] = "exists"]
  /\ pc' = [pc EXCEPT ![r] = "save_image"]
  /\ UNCHANGED <<running, globals, endpoint, enforce_detection, loopLocals,
                 callLocals, warm, response>>
  /\ UNCHANGED others

SaveImage_leaks(r) ==
  /\ pc[r] = "save_image" /\ running = r
  /\ \E e \in SaveErrors :
       /\ exc' = [exc EXCEPT ![r] = e]
       /\ response' = [response EXCEPT ![r] = ExtractErrorResponse(e, metadata[r])]
  /\ pc' = [pc EXCEPT ![r] = "ret"]
  /\ UNCHANGED <<running, globals, endpoint, enforce_detection, loopLocals,
                 confident_faces, embedding, metadata, tmp_file, warm>>
  /\ UNCHANGED others

\* image.save(tmp.name, format="JPEG", quality=95); result = None;
\* last_error = None; used_backend = None.  When save raises, the finally
\* clause unlinks the file and the exception reaches the handler
SaveImage(r) ==
  /\ pc[r] = "save_image" /\ running = r
  /\ \/ /\ pc' = [pc EXCEPT ![r] = "loop"]
        /\ idx' = [idx EXCEPT ![r] = 1]
        /\ result' = [result EXCEPT ![r] = NoneResult]
        /\ last_error' = [last_error EXCEPT ![r] = NoExc]
        /\ used_backend' = [used_backend EXCEPT ![r] = "None"]
        /\ UNCHANGED <<exc, last_error_from, calls>>
        /\ UNCHANGED <<tmp_file, response>>
     \/ /\ \E e \in SaveErrors :
             /\ exc' = [exc EXCEPT ![r] = e]
             /\ response' = [response EXCEPT ![r] = ExtractErrorResponse(e, metadata[r])]
        /\ tmp_file' = [tmp_file EXCEPT ![r] = "deleted"]
        /\ pc' = [pc EXCEPT ![r] = "ret"]
        /\ UNCHANGED loopLocals
  /\ UNCHANGED <<running, globals, endpoint, enforce_detection, confident_faces,
                 embedding, metadata, warm>>
  /\ UNCHANGED others

\* the rest of extract_embedding once the loop is left, and the handler's
\* answer: `if result is None or ... len(result) == 0:` raise the last error
\* or the generic ValueError (the finally clause unlinks the file); then the
\* confidence filter, the face-count policy, the selection and the metadata.
\* `meta0` is the handler's local `metadata` before the call (unbound).
FinishCall(res, err, backend, enforce, meta0) ==
  LET faces == res.faces
      kept == ConfidentFaces(faces)
      failed == PostLoopFails(res, err)
      raised == IF failed THEN PostLoopError(err)
                ELSE IF ~Truthy(res) THEN NoEmbeddingError
                ELSE IF Len(faces) = 0 THEN NoFacesInResultError
                ELSE IF TooManyFaces(kept, enforce)
                     THEN MultipleFacesError(Len(kept))
                     ELSE NoExc
      filtered == ~failed /\ Truthy(res)
  IN  IF raised # NoExc
      THEN [exc |-> raised,
            confident_faces |-> IF filtered THEN kept ELSE <<>>,
            embedding |-> 0,
            metadata |-> meta0,
            response |-> ExtractErrorResponse(raised, meta0)]
      ELSE LET face_data == MaxByConfidence(kept)
               meta == FaceMetadata(res, kept, face_data, backend)
           IN  [exc |-> NoExc,
                confident_faces |-> kept,
                embedding |-> face_data.embedding,
                metadata |-> meta,
                response |-> EmbeddingResponse(face_data.embedding, meta)]

\* one iteration of `for backend in detector_backends`: the call of
\* self._deepface.represent(..., detector_backend=backend), the validity
\* test with its break, and the except clause with its two `continue`s;
\* when the iteration leaves the loop (break, or no backend left) the call
\* runs to its end
TryBackend(r) ==
  /\ pc[r] = "loop" /\ running = r
  /\ idx[r] <= Len(detector_backends)
  /\ \E out \in RepresentOutcomes :
       LET backend == detector_backends[idx[r]]
           returned == out.kind = "return"
           res == IF returned THEN ListResult(out.faces) ELSE result[r]
           err == IF returned THEN last_error[r] ELSE out.exc
           valid == returned /\ IsValidResult(res)
           used == IF valid THEN backend ELSE used_backend[r]
           next == IF valid THEN idx[r] ELSE NextBackendIndex(idx[r])
           leaves == valid \/ next > Len(detector_backends)
           fin == FinishCall(res, err, used, enforce_detection[r], metadata[r])
       IN
       /\ calls' = [calls EXCEPT ![r] = Append(@, [backend |-> backend, out |-> out])]
       /\ result' = [result EXCEPT ![r] = res]
       /\ last_error' = [last_error EXCEPT ![r] = err]
       /\ last_error_from' = [last_error_from EXCEPT ![r] =
                                IF returned THEN @ ELSE idx[r]]
       /\ used_backend' = [used_backend EXCEPT ![r] = used]
       /\ idx' = [idx EXCEPT ![r] = next]
       /\ IF leaves
          THEN /\ pc' = [pc EXCEPT ![r] = "ret"]
               /\ tmp_file' = [tmp_file EXCEPT ![r] = "deleted"]
               /\ exc' = [exc EXCEPT ![r] = fin.exc]
               /\ confident_faces' = [confident_faces EXCEPT ![r] = fin.confident_faces]
               /\ embedding' = [embedding EXCEPT ![r] = fin.embedding]
               /\ metadata' = [metadata EXCEPT ![r] = fin.metadata]
               /\ response' = [response EXCEPT ![r] = fin.response]
          ELSE /\ pc' = [pc EXCEPT ![r] = "loop"]
               /\ UNCHANGED <<tmp_file, callLocals, response>>
  /\ UNCHANGED <<running, globals, endpoint, enforce_detection, warm>>
  /\ UNCHANGED others

\* ------------------------------------------- CLIPService.extract_embedding
\* self._model.encode(image, ...) inside try/except -> ValueError
ClipEncode(r) ==
  /\ pc[r] = "clip_encode" /\ running = r
  /\ \E ok \in BOOLEAN :
       IF ok
       THEN /\ response' = [response EXCEPT ![r] = PlainResponse]
            /\ UNCHANGED exc
       ELSE /\ exc' = [exc EXCEPT ![r] = ClipExtractError]
            /\ response' = [response EXCEPT ![r] = ClipErrorResponse(ClipExtractError)]
  /\ pc' = [pc EXCEPT ![r] = "ret"]
  /\ UNCHANGED <<running, globals, endpoint, enforce_detection, loopLocals,
                 confident_faces, embedding, metadata, tmp_file, warm>>
  /\ UNCHANGED others

\* ------------------------------------------------------- the hash endpoint
\* hashes = hash_service.compute_all_hashes(image): each of the four
\* compute_* methods turns any exception into ValueError, which the handler
\* answers with HASH_ERROR; else HashComputeResponse(...)
ComputeAllHashes(r) ==
  /\ pc[r] = "hash" /\ running = r
  /\ \E ok \in BOOLEAN :
       IF ok
       THEN /\ response' = [response EXCEPT ![r] = PlainResponse]
            /\ UNCHANGED exc
       ELSE /\ exc' = [exc EXCEPT ![r] = HashComputeError]
            /\ response' = [response EXCEPT ![r] = HashErrorResponse(HashComputeError)]
  /\ pc' = [pc EXCEPT ![r] = "ret"]
  /\ UNCHANGED <<running, globals, endpoint, enforce_detection, loopLocals,
                 confident_faces, embedding, metadata, tmp_file, warm>>
  /\ UNCHANGED others

\* ----------------------------------------------- the clip/compare endpoint
\* the pc of clip_compare while download_image(request.image<k>_url) is awaited
CompareAwaitPc(k) == IF k = 1 THEN "cc_await1" ELSE "cc_await2"

\* image<k>_bytes = await deepface_service.download_image(...);
\* image<k> = deepface_service.validate_image(image<k>_bytes), both inside one
\* try whose `except ValueError` answers DOWNLOAD_FAILED.  After the first
\* image the handler goes on to the second await and is suspended again;
\* after the second it enters clip_service.extract_embedding(image1).
ClipCompareLoad(r, k) ==
  /\ pc[r] = CompareAwaitPc(k) /\ running = 0
  /\ \E o \in DownloadOutcomes, valid \in BOOLEAN :
       IF DownloadFails(o) \/ ~valid
       THEN /\ download' = [download EXCEPT ![r] = o]
            /\ response' = [response EXCEPT ![r] =
                              CompareLoadErrorResponse(IF DownloadFails(o)
                                                       THEN DownloadError
                                                       ELSE InvalidImageError)]
            /\ pc' = [pc EXCEPT ![r] = "ret"]
            /\ running' = r
       ELSE /\ pc' = [pc EXCEPT ![r] = IF k = 1 THEN CompareAwaitPc(2) ELSE EnsurePc("clip")]
            /\ running' = IF k = 1 THEN 0 ELSE r
            /\ UNCHANGED <<download, response>>
  /\ UNCHANGED <<globals, endpoint, enforce_detection, loopLocals, callLocals,
                 tmp_file, warm, pureVars>>

\* the pc of clip_compare inside clip_service.extract_embedding(image<k>)
CompareEncodePc(k) == IF k = 1 THEN "cc_encode1" ELSE "cc_encode2"

\* embedding<k> = clip_service.extract_embedding(image<k>): for the second
\* image _ensure_model_loaded finds the flag set and returns; then
\* self._model.encode(...), whose exception becomes ValueError -> CLIP_ERROR.
\* After the second embedding: similarity = compute_similarity(...), which is
\* nan when an embedding is the zero vector, and CLIPCompareResponse(...),
\* which rejects it outside the inner try blocks.
ClipCompareEncode(r, k) ==
  /\ pc[r] = CompareEncodePc(k) /\ running = r
  /\ \E ok \in BOOLEAN, in_range \in BOOLEAN :
       IF ~ok
       THEN /\ exc' = [exc EXCEPT ![r] = ClipExtractError]
            /\ response' = [response EXCEPT ![r] = ClipErrorResponse(ClipExtractError)]
            /\ pc' = [pc EXCEPT ![r] = "ret"]
       ELSE IF k = 1
       THEN /\ pc' = [pc EXCEPT ![r] = CompareEncodePc(2)]
            /\ UNCHANGED <<exc, response>>
       ELSE /\ pc' = [pc EXCEPT ![r] = "ret"]
            /\ IF in_range
               THEN /\ response' = [response EXCEPT ![r] = PlainResponse]
                    /\ UNCHANGED exc
               ELSE /\ exc' = [exc EXCEPT ![r] = ResponseValidationError]
                    /\ response' = [response EXCEPT ![r] =
                                      UnexpectedErrorResponse(ResponseValidationError)]
  /\ UNCHANGED <<running, globals, endpoint, enforce_detection, loopLocals,
                 confident_faces, embedding, metadata, tmp_file, warm>>
  /\ UNCHANGED others

\* ------------------------------------------------------ end of a request
\* the handler returns its response; its locals are gone
Return(r) ==
  /\ pc[r] = "ret" /\ running = r
  /\ running' = 0
  /\ pc' = [pc EXCEPT ![r] = "idle"]
  /\ endpoint' = [endpoint EXCEPT ![r] = "none"]
  /\ enforce_detection' = [enforce_detection EXCEPT ![r] = FALSE]
  /\ idx' = [idx EXCEPT ![r] = 0]
  /\ result' = [result EXCEPT ![r] = NoneResult]
  /\ last_error' = [last_error EXCEPT ![r] = NoExc]
  /\ last_error_from' = [last_error_from EXCEPT ![r] = 0]
  /\ used_backend' = [used_backend EXCEPT ![r] = "None"]
  /\ calls' = [calls EXCEPT ![r] = <<>>]
  /\ tmp_file' = [tmp_file EXCEPT ![r] = "none"]
  /\ exc' = [exc EXCEPT ![r] = NoExc]
  /\ confident_faces' = [confident_faces EXCEPT ![r] = <<>>]
  /\ embedding' = [embedding EXCEPT ![r] = 0]
  /\ metadata' = [metadata EXCEPT ![r] = NoMetadata]
  /\ warm' = [warm EXCEPT ![r] = NoWarm]
  /\ response' = [response EXCEPT ![r] = NoResponse]
  /\ download' = [download EXCEPT ![r] = "none"]
  /\ cmp' = NoCompare
  /\ UNCHANGED <<globals, img, hsh>>

\* ------------------------------------------- the compare-faces endpoint
\* lengths of the embeddings a caller may pass; 256 and 1 are wrong lengths
EmbeddingLengths == {1, 256, EMBEDDING_DIMENSIONS}
Embeddings == [len : EmbeddingLengths, zero : BOOLEAN]

\* the metric names a caller may pass; "manhattan" is not a known one
MetricNames == DistanceMetric \cup {"manhattan"}

\* thresholds a caller may pass, in hundredths: none, 0, values of [0, 2]
\* and one above 2
ThresholdValues == { None, Some(0), Some(68), Some(113), Some(200), Some(500) }

\* distances between two vectors, in hundredths
DistValues == {0, 50, 68, 113, 200, 415, 600}

\* a cosine or L2-normalised distance is at most 2; two zero vectors are at
\* distance 0
CompareRequests ==
  { q \in [embedding1 : Embeddings, embedding2 : Embeddings,
           distance_metric : MetricNames, threshold : ThresholdValues,
           dist : DistValues] :
      /\ (q.distance_metric # "euclidean" => q.dist <= 200)
      /\ (q.embedding1.zero /\ q.embedding2.zero => q.dist = 0) }

\* CompareFacesRequest: both embeddings have 512 elements, the metric is a
\* member of DistanceMetric, the threshold is absent or within [0, 2]
RequestAccepted(q) ==
  /\ q.embedding1.len = EMBEDDING_DIMENSIONS
  /\ q.embedding2.len = EMBEDDING_DIMENSIONS
  /\ q.distance_metric \in DistanceMetric
  /\ (q.threshold.isNone \/ (0 <= q.threshold.val /\ q.threshold.val <= 200))

\* CompareFacesResponse: distance ge=0, similarity and confidence ge=0, le=1
ResponseAccepted(res) ==
  /\ NonNegative(res.distance)
  /\ InUnitRange(res.similarity)
  /\ InUnitRange(res.confidence)

CallOf(q) ==
  compare_embeddings(q.embedding1, q.embedding2, q.distance_metric, q.threshold, q.dist)

\* service.compare_embeddings(...) called on its own
CompareEmbeddings ==
  /\ cmp.phase = "request"
  /\ cmp' = [cmp EXCEPT !.phase = "called", !.called = TRUE, !.call = CallOf(cmp.request)]
  /\ UNCHANGED <<serviceVars, img, hsh>>

\* POST /api/v1/compare-faces: a request the model rejects is answered 422
\* by the framework; else compare_embeddings is called, a ValueError (also
\* the one CompareFacesResponse raises for a value out of range) is answered
\* INVALID_EMBEDDING
CompareFacesAnswer(q) ==
  LET c == CallOf(q)
  IN  IF ~RequestAccepted(q)
      THEN [NoCompare EXCEPT !.phase = "answered", !.request = q,
              !.response = [sent |-> TRUE, status |-> 422,
                            code |-> "VALIDATION_ERROR", body |-> NoComparison]]
      ELSE [NoCompare EXCEPT !.phase = "answered", !.request = q,
              !.called = TRUE, !.call = c,
              !.response =
                IF c.raised # NoExc \/ ~ResponseAccepted(c.result)
                THEN [sent |-> TRUE, status |-> 400,
                      code |-> "INVALID_EMBEDDING", body |-> NoComparison]
                ELSE [sent |-> TRUE, status |-> 200, code |-> "",
                      body |-> c.result]]

\* one compare-faces request on its own
compare_faces ==
  /\ cmp.phase = "request"
  /\ cmp' = CompareFacesAnswer(cmp.request)
  /\ UNCHANGED <<serviceVars, img, hsh>>

\* the compare-faces requests sent while other requests are in flight: a
\* wrong length, an unknown metric, two zero vectors, a zero threshold, and
\* ordinary ones
ServedCompareRequests ==
  { q \in CompareRequests :
      /\ q.embedding1.len = q.embedding2.len /\ q.embedding1.len # 1
      /\ q.distance_metric \in {"cosine", "manhattan"}
      /\ q.threshold \in {None, Some(0)}
      /\ q.dist \in {0, 68} }

\* POST /api/v1/compare-faces among the other handlers: the handler has no
\* await and runs from its first line to its return
CompareFacesRequest(r) ==
  /\ pc[r] = "idle" /\ running = 0
  /\ \E q \in ServedCompareRequests :
       LET a == CompareFacesAnswer(q)
       IN  /\ cmp' = a
           /\ response' = [response EXCEPT ![r] =
                             IF a.response.code = "" THEN PlainResponse
                             ELSE ErrorResponse(a.response.code, None)]
  /\ endpoint' = [endpoint EXCEPT ![r] = "compare_faces"]
  /\ pc' = [pc EXCEPT ![r] = "ret"]
  /\ running' = r
  /\ UNCHANGED <<globals, enforce_detection, loopLocals, callLocals, tmp_file,
                 warm, download, img, hsh>>

health_check_loading(r) ==
  /\ pc[r] = "idle" /\ running = 0
  /\ endpoint' = [endpoint EXCEPT ![r] = "health"]
  /\ response' = [response EXCEPT ![r] = PlainResponse]
  /\ pc' = [pc EXCEPT ![r] = "ret"]
  /\ running' = r
  /\ model_loaded' = [model_loaded EXCEPT !["deepface"] = TRUE]
  /\ UNCHANGED <<load_count, enforce_detection, loopLocals, callLocals, tmp_file, warm>>
  /\ UNCHANGED others

\* GET /api/v1/health: reads is_model_loaded of both services
health_check(r) ==
  /\ pc[r] = "idle" /\ running = 0
  /\ endpoint' = [endpoint EXCEPT ![r] = "health"]
  /\ response' = [response EXCEPT ![r] = PlainResponse]
  /\ pc' = [pc EXCEPT ![r] = "ret"]
  /\ running' = r
  /\ UNCHANGED <<globals, enforce_detection, loopLocals, callLocals, tmp_file, warm>>
  /\ UNCHANGED others

\* GET /api/v1/model-info: reads is_model_loaded of both services
get_model_info(r) ==
  /\ pc[r] = "idle" /\ running = 0
  /\ endpoint' = [endpoint EXCEPT ![r] = "model_info"]
  /\ response' = [response EXCEPT ![r] = PlainResponse]
  /\ pc' = [pc EXCEPT ![r] = "ret"]
  /\ running' = r
  /\ UNCHANGED <<globals, enforce_detection, loopLocals, callLocals, tmp_file, warm>>
  /\ UNCHANGED others

CompareInit ==
  /\ ServiceInit
  /\ img = NoImage
  /\ hsh = NoHash
  /\ \E q \in CompareRequests :
       cmp = [NoCompare EXCEPT !.phase = "request", !.request = q]

CompareNext == CompareEmbeddings \/ compare_faces

CompareSpec == CompareInit /\ [][CompareNext]_vars

\* ------------------------------------------ DeepFaceService.validate_image
\* widths and heights of the images: tiny, below the minimum, at it,
\* between the bounds, at the maximum and above it
DimValues == {1, 11, 100, 479, 480, 1000, 2048, 2049, 2215, 4096}

\* exif[orientation_key], absent when there is no EXIF data or no tag; 0 and
\* 9 are values the standard does not define
Orientations == { None } \cup { Some(k) : k \in 0..9 }

ImageModes == {"RGB", "RGBA"}

\* image = Image.open(...); image.verify(); image = Image.open(...)
OpenImage ==
  /\ img.phase = "bytes"
  /\ img' = IF img.fault = "decode"
            THEN [img EXCEPT !.phase = "failed", !.raised = InvalidImageError]
            ELSE [img EXCEPT !.phase = "opened"]
  /\ UNCHANGED <<serviceVars, cmp, hsh>>

\* image = self._normalize_exif_orientation(image)
NormalizeExif ==
  /\ img.phase = "opened"
  /\ img' = [img EXCEPT !.phase = "oriented", !.pre = img.image,
               !.image = normalize_exif_orientation(img.image, img.orientation, img.fault)]
  /\ UNCHANGED <<serviceVars, cmp, hsh>>

\* if image.mode != "RGB": image = image.convert("RGB"); an exception
\* reaches the except clause of validate_image
ConvertRGB ==
  /\ img.phase = "oriented"
  /\ img' = IF img.image.mode = "RGB" THEN [img EXCEPT !.phase = "rgb"]
            ELSE IF img.fault = "convert"
            THEN [img EXCEPT !.phase = "failed", !.raised = InvalidImageError]
            ELSE [img EXCEPT !.phase = "rgb", !.image.mode = "RGB"]
  /\ UNCHANGED <<serviceVars, cmp, hsh>>

\* image = self._enforce_dimensions(image); return image.  An exception of
\* the resize reaches the except clause of validate_image
EnforceDimensions ==
  /\ img.phase = "rgb"
  /\ LET r == enforce_dimensions(img.image, img.fault)
     IN  img' = IF r.raised
                THEN [img EXCEPT !.phase = "failed", !.pre = img.image,
                                 !.resize = r.resize, !.raised = InvalidImageError]
                ELSE [img EXCEPT !.phase = "returned", !.pre = img.image,
                                 !.resize = r.resize, !.image = r.image]
  /\ UNCHANGED <<serviceVars, cmp, hsh>>

ImageInit ==
  /\ ServiceInit
  /\ cmp = NoCompare
  /\ hsh = NoHash
  /\ \E w \in DimValues, h \in DimValues, mode \in ImageModes,
        o \in Orientations, fault \in Faults :
       img = [NoImage EXCEPT !.phase = "bytes", !.orientation = o, !.fault = fault,
                             !.image = ImageOf(w, h, mode), !.pre = ImageOf(w, h, mode)]

ImageNext == OpenImage \/ NormalizeExif \/ ConvertRGB \/ EnforceDimensions

ImageSpec == ImageInit /\ [][ImageNext]_vars

\* ------------------------------------------------- comparing two hashes
\* the hexadecimal digits the hash strings are made of: 0000, 0110 and 1111
HashDigits == {0, 6, 15}

\* the hash strings: the empty string, which is not a hash, and the strings
\* of 1 and of 4 digits, the hashes of size 2 and 4 (a hash of size n has
\* n * n / 4 digits)
HashLengths == {0, 1, 4}
HashStrings == UNION { [1..n -> HashDigits] : n \in HashLengths }

\* a string str(ImageHash) can be: its bits fill a square
WellFormed(h) ==
  Len(h) > 0 /\ IntSqrtFrom(Len(h) * 4, 0) * IntSqrtFrom(Len(h) * 4, 0) = Len(h) * 4

\* hash_service.hamming_distance(hash1, hash2)
HammingDistance ==
  /\ hsh.phase = "args"
  /\ LET d == hamming_distance(hsh.hash1, hsh.hash2)
     IN  hsh' = [hsh EXCEPT !.phase = "distance", !.raised = d.raised, !.value = d.value]
  /\ UNCHANGED <<serviceVars, cmp, img>>

\* hash_service.hash_similarity(hash1, hash2)
HashSimilarity ==
  /\ hsh.phase = "args"
  /\ LET d == hash_similarity(hsh.hash1, hsh.hash2)
     IN  hsh' = [hsh EXCEPT !.phase = "similarity", !.raised = d.raised, !.value = d.value]
  /\ UNCHANGED <<serviceVars, cmp, img>>

HashInit ==
  /\ ServiceInit
  /\ cmp = NoCompare
  /\ img = NoImage
  /\ \E h1 \in HashStrings, h2 \in HashStrings :
       hsh = [NoHash EXCEPT !.phase = "args", !.hash1 = h1, !.hash2 = h2]

HashNext == HammingDistance \/ HashSimilarity

HashSpec == HashInit /\ [][HashNext]_vars

\* ---------------------------------------------------------- specification
\* the steps of a request once it has been received
Step(r) ==
  \/ GetBytesUrl(r) \/ DownloadDone(r) \/ GetBytesBase64(r) \/ ValidateImage(r)
  \/ \E m \in Models : EnsureModelLoaded(r, m) \/ WarmCheck(r, m) \/ LoadModel(r, m)
  \/ CreateTmp(r) \/ SaveImage(r) \/ TryBackend(r) \/ ClipEncode(r) \/ Return(r)

Next ==
  \E r \in Requests :
    \/ StartExtract(r)
    \/ StartClipEmbed(r)
    \/ StartWarmUp(r)
    \/ GetBytesUrl(r)
    \/ DownloadDone(r)
    \/ GetBytesBase64(r)
    \/ ValidateImage(r)
    \/ \E m \in Models : EnsureModelLoaded(r, m)
    \/ \E m \in Models : WarmCheck(r, m)
    \/ \E m \in Models : LoadModel(r, m)
    \/ CreateTmp(r)
    \/ SaveImage(r)
    \/ TryBackend(r)
    \/ ClipEncode(r)
    \/ Return(r)

Spec == Init /\ [][Next]_vars

\* the event loop keeps running the coroutines that are ready, and a
\* download ends (with the bytes, an HTTP error or the timeout)
FairSpec == Spec /\ WF_vars(\E r \in Requests : Step(r))

\* every handler of main.py on the one event loop: the three above, and
\* hash/compute, clip/compare, compare-faces, health and model-info
ServiceNext ==
  \/ Next
  \/ \E r \in Requests :
       \/ StartHashCompute(r)
       \/ ComputeAllHashes(r)
       \/ StartClipCompare(r)
       \/ \E k \in 1..2 : ClipCompareLoad(r, k)
       \/ \E k \in 1..2 : ClipCompareEncode(r, k)
       \/ CompareFacesRequest(r)
       \/ health_check(r)
       \/ get_model_info(r)

ServiceSpec == Init /\ [][ServiceNext]_vars

\* ================================================================ claims
NonEmptyReturn(out) == out.kind = "return" /\ Len(out.faces) > 0
LastCall(r) == calls[r][Len(calls[r])]
\* the fallback loop of request r ended at a backend that returned faces
Won(r) == Len(calls[r]) > 0 /\ NonEmptyReturn(LastCall(r).out)
\* every backend was tried and none returned a face
Exhausted(r) ==
  /\ Len(calls[r]) = Len(detector_backends)
  /\ \A i \in 1..Len(calls[r]) : ~NonEmptyReturn(calls[r][i].out)

\* C1: the i-th represent call of a request goes to the i-th backend of
\* detector_backends; a call that returned a non-empty list is the last call
\* of the request (no later backend is invoked, and the loop is left); the
\* metadata of a successful call names the backend of that last call.
C1_OrderedFirstSuccessStops ==
  \A r \in Requests :
    /\ Len(calls[r]) <= Len(detector_backends)
    /\ \A i \in 1..Len(calls[r]) :
         /\ calls[r][i].backend = detector_backends[i]
         /\ NonEmptyReturn(calls[r][i].out) => i = Len(calls[r])
    /\ Won(r) => pc[r] # "loop"
    /\ metadata[r].bound =>
         /\ Won(r)
         /\ metadata[r].detector_backend = LastCall(r).backend

\* success at the second backend: the third one was never called
C1_Witness ==
  \E r \in Requests :
    /\ pc[r] = "ret" /\ metadata[r].bound
    /\ Len(calls[r]) = 2
    /\ ~NonEmptyReturn(calls[r][1].out)
    /\ metadata[r].detector_backend = "mtcnn"

\* C2 as stated: whenever a backend after the first returns a non-empty
\* result, the call succeeds with a face of that backend.
C2_Original ==
  \A r \in Requests :
    (pc[r] = "ret" /\ Won(r) /\ Len(calls[r]) >= 2) =>
      /\ exc[r] = NoExc
      /\ response[r].ok
      /\ metadata[r].detector_backend = LastCall(r).backend

\* C2 as amended: a failed attempt (no-face error, other exception, empty
\* list) never ends the loop while a backend is left; when a later backend
\* returns a non-empty result the outcome is decided by that result alone:
\* the call returns a face of that backend, or raises "Multiple faces
\* detected" when several faces remain and enforce_detection is set; no
\* error of an earlier backend is the outcome.
C2_FailuresAbsorbed ==
  \A r \in Requests :
    /\ (pc[r] = "ret" /\ Len(calls[r]) > 0) =>
         (Won(r) \/ Len(calls[r]) = Len(detector_backends))
    /\ (pc[r] = "loop" /\ Len(calls[r]) > 0) =>
         (~Won(r) /\ idx[r] = Len(calls[r]) + 1 /\ tmp_file[r] = "exists")
    /\ (pc[r] = "ret" /\ Won(r) /\ Len(calls[r]) >= 2) =>
         /\ \/ /\ exc[r] = NoExc
               /\ response[r].ok
               /\ metadata[r].detector_backend = LastCall(r).backend
               /\ \E j \in 1..Len(LastCall(r).out.faces) :
                    LastCall(r).out.faces[j].embedding = embedding[r]
            \/ /\ Contains(exc[r], "multiple")
               /\ enforce_detection[r]
               /\ Len(LastCall(r).out.faces) > 1
               /\ response[r].code = "MULTIPLE_FACES_DETECTED"
         /\ \A i \in 1..(Len(calls[r]) - 1) :
              calls[r][i].out.kind = "raise" => exc[r] # calls[r][i].out.exc
         /\ response[r].code \notin {"NO_FACE_DETECTED", "MODEL_ERROR", "INTERNAL_ERROR"}

\* a no-face error, then another exception, then success at the third backend
C2_Witness ==
  \E r \in Requests :
    /\ pc[r] = "ret" /\ Len(calls[r]) = 3
    /\ calls[r][1].out.kind = "raise" /\ IsNoFaceBackendError(calls[r][1].out.exc)
    /\ calls[r][2].out.kind = "raise" /\ ~IsNoFaceBackendError(calls[r][2].out.exc)
    /\ Won(r) /\ response[r].ok
    /\ metadata[r].detector_backend = "opencv"

\* C3: when every backend was tried and none returned a face, the
\* extract-embedding handler answers NO_FACE_DETECTED, whatever the kinds of
\* the three failures.
C3_ExhaustedIsNoFaceDetected ==
  \A r \in Requests :
    (pc[r] = "ret" /\ Exhausted(r)) =>
      (~response[r].ok /\ response[r].code = "NO_FACE_DETECTED")

\* C4 as stated: when the backends are exhausted and some backend raised,
\* the error that leaves extract_embedding is the one the last backend of the
\* list raised.
C4_Original ==
  \A r \in Requests :
    (pc[r] = "ret" /\ Exhausted(r)
       /\ \E i \in 1..Len(calls[r]) : calls[r][i].out.kind = "raise") =>
      /\ last_error_from[r] = Len(detector_backends)
      /\ LastCall(r).out.kind = "raise"
      /\ exc[r] = LastCall(r).out.exc

\* C4 as amended: when the backends are exhausted, the error that leaves
\* extract_embedding is the one raised by the latest backend that raised (the
\* last backend of the list exactly when that backend raised); when no
\* backend raised it is the generic "No faces detected" ValueError.
C4_LastRaisedError ==
  \A r \in Requests :
    (pc[r] = "ret" /\ Exhausted(r)) =>
      LET raisers == { i \in 1..Len(calls[r]) : calls[r][i].out.kind = "raise" }
      IN  IF raisers = {}
          THEN exc[r] = AllBackendsFailedError /\ last_error_from[r] = 0
          ELSE /\ last_error_from[r] \in raisers
               /\ \A i \in raisers : i <= last_error_from[r]
               /\ exc[r] = calls[r][last_error_from[r]].out.exc

\* the last backend returned an empty list: the second backend's error
\* leaves the call, not the first one's
C4_Witness ==
  \E r \in Requests :
    /\ pc[r] = "ret" /\ Exhausted(r)
    /\ calls[r][1].out.kind = "raise"
    /\ calls[r][2].out.kind = "raise"
    /\ calls[r][1].out.exc # calls[r][2].out.exc
    /\ calls[r][3].out.kind = "return"
    /\ exc[r] = calls[r][2].out.exc

\* request r is inside service.extract_embedding
InCall(r) ==
  /\ endpoint[r] = "extract_embedding"
  /\ pc[r] \in {"df_ensure", "df_loading", "create_tmp", "save_image", "loop"}

\* C5: a call of extract_embedding invokes DeepFace.represent at most once
\* per backend, hence at most len(detector_backends) times; an attempt that
\* failed while a backend is left leaves the temporary image file in place
\* and the loaded flags as they were for the next attempt; and every call ends: a call is never
\* suspended (it holds the event loop, as does a handler about to return),
\* it is left only by returning to the handler, and whenever a call is in
\* progress the handler's return is reached (under FairSpec).
C5_AttemptsBounded ==
  \A r \in Requests :
    /\ Len(calls[r]) <= Len(detector_backends)
    /\ \A i, j \in 1..Len(calls[r]) :
         calls[r][i].backend = calls[r][j].backend => i = j

C5_FailedAttemptKeepsState ==
  \A r \in Requests :
    (Len(calls'[r]) = Len(calls[r]) + 1 /\ pc'[r] = "loop") =>
      /\ ~NonEmptyReturn(calls'[r][Len(calls'[r])].out)
      /\ tmp_file[r] = "exists"
      /\ tmp_file'[r] = "exists"
      /\ model_loaded' = model_loaded
      /\ model_loaded["deepface"]
      /\ enforce_detection'[r] = enforce_detection[r]

C5_CallHoldsLoop ==
  \A r \in Requests : (InCall(r) \/ pc[r] = "ret") => running = r

C5_CallLeftByReturn ==
  \A r \in Requests : InCall(r) => (InCall(r)' \/ pc'[r] = "ret")

\* C5 as a whole: the bound on the attempts, the frame of a failed attempt
\* and the termination of every call
C5_BoundedTermination ==
  /\ []C5_AttemptsBounded
  /\ [][C5_FailedAttemptKeepsState]_vars
  /\ []C5_CallHoldsLoop
  /\ [][C5_CallLeftByReturn]_vars
  /\ (\E r \in Requests : InCall(r)) ~> (\E r \in Requests : pc[r] = "ret")

\* a call that tried all three backends and has ended
C5_Witness ==
  \E r \in Requests :
    /\ pc[r] = "ret" /\ Len(calls[r]) = Len(detector_backends)
    /\ Exhausted(r) /\ tmp_file[r] = "deleted"

\* C6: of the faces the winning backend returned, confident_faces holds
\* exactly those whose confidence (0.99 when the detector reports none) is
\* at least FACE_DETECTION_CONFIDENCE, or all of them when no face reaches
\* it; the list is never empty and the request is never answered
\* NO_FACE_DETECTED.
C6_ConfidenceFilter ==
  \A r \in Requests :
    (pc[r] = "ret" /\ Won(r)) =>
      LET faces == LastCall(r).out.faces
          kept == confident_faces[r]
          clears(f) == FilterConfidence(f) >= FACE_DETECTION_CONFIDENCE
          anyClears == \E i \in 1..Len(faces) : clears(faces[i])
      IN  /\ \A i \in 1..Len(faces) :
               (\E j \in 1..Len(kept) : kept[j] = faces[i])
                 <=> (clears(faces[i]) \/ ~anyClears)
          /\ \A j \in 1..Len(kept) : \E i \in 1..Len(faces) : kept[j] = faces[i]
          /\ Len(kept) > 0 /\ Len(kept) <= Len(faces)
          /\ response[r].code # "NO_FACE_DETECTED"

\* every face is below the threshold, all are used and the call succeeds
C6_Witness ==
  \E r \in Requests :
    /\ pc[r] = "ret" /\ Won(r)
    /\ \A i \in 1..Len(LastCall(r).out.faces) :
         ~IsConfident(LastCall(r).out.faces[i])
    /\ confident_faces[r] = LastCall(r).out.faces
    /\ response[r].ok

\* C7: once the faces are filtered, the call raises "Multiple faces
\* detected" (answered MULTIPLE_FACES_DETECTED) exactly when more than one
\* face remains and enforce_detection is true; otherwise it returns the
\* embedding of a remaining face whose reported confidence (0 when none is
\* reported) no remaining face exceeds.
C7_FaceCountPolicy ==
  \A r \in Requests :
    (pc[r] = "ret" /\ Won(r)) =>
      LET kept == confident_faces[r]
          many == Len(kept) > 1 /\ enforce_detection[r]
      IN  /\ Contains(exc[r], "multiple") <=> many
          /\ response[r].code = "MULTIPLE_FACES_DETECTED" <=> many
          /\ ~many =>
               /\ exc[r] = NoExc /\ response[r].ok
               /\ \E j \in 1..Len(kept) :
                    /\ kept[j].embedding = embedding[r]
                    /\ response[r].embedding = embedding[r]
                    /\ \A k \in 1..Len(kept) :
                         SelectConfidence(kept[k]) <= SelectConfidence(kept[j])

\* two faces remain, detection is not enforced, the second one is returned
C7_Witness ==
  \E r \in Requests :
    /\ pc[r] = "ret" /\ Won(r) /\ ~enforce_detection[r]
    /\ Len(confident_faces[r]) = 2
    /\ response[r].ok /\ embedding[r] = 2

\* C8: the MULTIPLE_FACES_DETECTED response carries, in details.face_count,
\* the number of faces that triggered the error.
C8_FaceCountAttached ==
  \A r \in Requests :
    (pc[r] = "ret" /\ response[r].code = "MULTIPLE_FACES_DETECTED") =>
      response[r].details = Some(Len(confident_faces[r]))

\* C9: on success the metadata gives the number of faces the winning
\* backend returned (before filtering), the confidence (0.99 when none is
\* reported) and the bounding box of the face whose embedding is returned,
\* and the winning backend; the response repeats count, confidence and box.
C9_SuccessMetadata ==
  \A r \in Requests :
    (pc[r] = "ret" /\ endpoint[r] = "extract_embedding" /\ response[r].ok) =>
      /\ Won(r)
      /\ metadata[r].bound
      /\ metadata[r].face_count = Len(LastCall(r).out.faces)
      /\ metadata[r].detector_backend = LastCall(r).backend
      /\ \E j \in 1..Len(LastCall(r).out.faces) :
           LET f == LastCall(r).out.faces[j]
           IN  /\ f.embedding = embedding[r]
               /\ metadata[r].facial_area = f.facial_area
               /\ metadata[r].face_confidence =
                    (IF f.face_confidence.isNone THEN 99 ELSE f.face_confidence.val)
      /\ response[r].face_count = metadata[r].face_count
      /\ response[r].face_confidence = metadata[r].face_confidence
      /\ response[r].facial_area = metadata[r].facial_area

\* the filter dropped one of two faces: face_count is still two
C9_Witness ==
  \E r \in Requests :
    /\ pc[r] = "ret" /\ response[r].ok /\ Won(r)
    /\ Len(LastCall(r).out.faces) = 2
    /\ Len(confident_faces[r]) = 1
    /\ metadata[r].face_count = 2

\* C10: for each model, at most one request is inside the loading step at
\* any time, and at most one load of the model ever completes.
C10_LoadMutualExclusion ==
  \A m \in Models :
    /\ Cardinality({ r \in Requests : pc[r] = LoadingPc(m) }) <= 1
    /\ load_count[m] <= 1
    /\ (\E r \in Requests : pc[r] = LoadingPc(m)) => ~model_loaded[m]

\* two first requests for the face model are in flight: one is loading it
\* while the other, received earlier, waits for its download
C10_Witness ==
  \E r1, r2 \in Requests :
    /\ r1 # r2
    /\ pc[r1] = "df_loading" /\ endpoint[r1] = "extract_embedding"
    /\ pc[r2] = "await_download" /\ endpoint[r2] = "extract_embedding"
    /\ ~model_loaded["deepface"]

\* the comparison a call returned
Compared == cmp.called /\ cmp.call.raised = NoExc
CmpResult == cmp.call.result

\* C11: for every metric and every positive threshold the result has
\* is_same_person true exactly when the distance is below the threshold
\* (strictly); when the distance equals the threshold, is_same_person is
\* false and the confidence is 0.
C11_StrictDecision ==
  (Compared /\ CmpResult.threshold_used > 0) =>
    LET d == CmpResult.distance
        t == CmpResult.threshold_used
    IN  /\ CmpResult.is_same_person <=> (d.k = "num" /\ d.v < t)
        /\ (d.k = "num" /\ d.v = t) =>
             (~CmpResult.is_same_person /\ CmpResult.confidence = Num(0))

\* the distance equals the default euclidean_l2 threshold
C11_Witness ==
  /\ Compared
  /\ cmp.request.distance_metric = "euclidean_l2"
  /\ cmp.request.threshold.isNone
  /\ CmpResult.distance = Num(113)
  /\ ~CmpResult.is_same_person
  /\ CmpResult.confidence = Num(0)

\* C12: the result names the metric requested and the threshold applied:
\* the caller's threshold when one is supplied (0 included), else the
\* default of the metric (0.68, 4.15, 1.13); the decision is taken against
\* that threshold.
C12_ThresholdReported ==
  Compared =>
    LET q == cmp.request
        expected == IF ~q.threshold.isNone THEN q.threshold.val
                    ELSE IF q.distance_metric = "cosine" THEN 68
                    ELSE IF q.distance_metric = "euclidean" THEN 415
                    ELSE 113
    IN  /\ CmpResult.distance_metric = q.distance_metric
        /\ CmpResult.threshold_used = expected
        /\ CmpResult.is_same_person <=>
             (CmpResult.distance.k = "num" /\ CmpResult.distance.v < expected)

\* a supplied threshold of 0 is the threshold used, and nothing is below it
C12_Witness ==
  /\ Compared
  /\ cmp.request.threshold = Some(0)
  /\ CmpResult.threshold_used = 0
  /\ CmpResult.distance = Num(0)
  /\ ~CmpResult.is_same_person

\* C13: with a metric other than cosine, euclidean and euclidean_l2,
\* compare_embeddings raises its "Unknown distance metric" ValueError for
\* every pair of embeddings and every threshold, without any arithmetic and
\* without a result; the endpoint never answers such a request with a
\* comparison.
C13_UnknownMetricFails ==
  (cmp.phase # "request" /\ cmp.request.distance_metric \notin DistanceMetric) =>
    /\ cmp.called =>
         /\ cmp.call.raised = UnknownMetricError
         /\ ~cmp.call.arithmetic
         /\ cmp.call.result = NoComparison
    /\ cmp.phase = "answered" =>
         (cmp.response.status # 200 /\ cmp.response.body = NoComparison)

\* an unknown metric with two well-formed embeddings and no threshold
C13_Witness ==
  /\ cmp.phase = "called"
  /\ cmp.request.distance_metric = "manhattan"
  /\ cmp.request.embedding1.len = EMBEDDING_DIMENSIONS
  /\ cmp.request.embedding2.len = EMBEDDING_DIMENSIONS
  /\ cmp.request.threshold.isNone
  /\ cmp.call.raised = UnknownMetricError

\* the two embeddings have 512 elements each
WellSized(q) ==
  q.embedding1.len = EMBEDDING_DIMENSIONS /\ q.embedding2.len = EMBEDDING_DIMENSIONS

\* C14: a comparison of embeddings whose lengths differ from each other or
\* from 512 fails with InvalidEmbedding before any distance arithmetic, and
\* never yields a comparison.
C14_WrongLengthFails ==
  (cmp.phase # "request" /\ ~WellSized(cmp.request)) =>
    /\ cmp.called =>
         /\ cmp.call.raised # NoExc
         /\ ~cmp.call.arithmetic
         /\ cmp.call.result = NoComparison
    /\ cmp.phase = "answered" => cmp.response.code = "INVALID_EMBEDDING"

\* C15: for every request the validation accepts, the result of
\* compare_embeddings has distance >= 0 and similarity and confidence within
\* [0, 1], and no division by zero took place.
C15_ResultRanges ==
  (Compared /\ RequestAccepted(cmp.request)) =>
    /\ NonNegative(CmpResult.distance)
    /\ InUnitRange(CmpResult.similarity)
    /\ InUnitRange(CmpResult.confidence)
    /\ ~cmp.call.zerodiv

ShortSide(im) == Min(im.width, im.height)
LongSide(im) == Max(im.width, im.height)

\* C16: for an image whose short side is positive and below
\* MIN_IMAGE_DIMENSION, _enforce_dimensions returns an image whose short
\* side is exactly MIN_IMAGE_DIMENSION and whose long side is the original
\* long side scaled by the same factor, truncated to an integer.
C16_UpscaleToMinimum ==
  (img.phase = "returned" /\ ShortSide(img.pre) > 0
     /\ ShortSide(img.pre) < MIN_IMAGE_DIMENSION) =>
    /\ ShortSide(img.image) = MIN_IMAGE_DIMENSION
    /\ LongSide(img.image) =
         (LongSide(img.pre) * MIN_IMAGE_DIMENSION) \div ShortSide(img.pre)

\* C17: for every image of positive width and height, the image
\* _enforce_dimensions returns has a short side of at least
\* MIN_IMAGE_DIMENSION, and a long side of at most MAX_IMAGE_DIMENSION unless
\* scaling the long side down to it would bring the short side below the
\* minimum; a downscale is applied only when the scaled short side stays at
\* or above the minimum, and otherwise the image is left as it is.
C17_DimensionBounds ==
  (img.phase = "returned" /\ img.pre.width > 0 /\ img.pre.height > 0) =>
    /\ ShortSide(img.image) >= MIN_IMAGE_DIMENSION
    /\ \/ LongSide(img.image) <= MAX_IMAGE_DIMENSION
       \/ (ShortSide(img.image) * MAX_IMAGE_DIMENSION) \div LongSide(img.image)
            < MIN_IMAGE_DIMENSION
    /\ (LongSide(img.image) < LongSide(img.pre)) =>
         ShortSide(img.image) >= MIN_IMAGE_DIMENSION
    /\ img.resize = "skipped" => img.image = img.pre

\* the transposes of the EXIF step did not fail
Transposed ==
  /\ img.phase = "oriented"
  /\ img.fault \notin {"getexif", "transpose", "transpose2"}
  /\ ~img.orientation.isNone

\* C18: EXIF normalization with orientation 3 yields the image turned by
\* 180 degrees, of the same width and height; with orientation 6 it yields
\* the image turned by 90 degrees, width and height swapped; orientations 1
\* to 4 keep the dimensions and 5 to 8 swap them.
C18_ExifRotation ==
  Transposed =>
    LET o == img.orientation.val
        a == img.pre
        b == img.image
        same == b.width = a.width /\ b.height = a.height
        swapped == b.width = a.height /\ b.height = a.width
        clockwise == b.tl = a.bl /\ b.tr = a.tl /\ b.br = a.tr /\ b.bl = a.br
        counterclockwise == b.tl = a.tr /\ b.tr = a.br /\ b.br = a.bl /\ b.bl = a.tl
    IN  /\ o = 3 => (same /\ b.tl = a.br /\ b.tr = a.bl /\ b.bl = a.tr /\ b.br = a.tl)
        /\ o = 6 => (swapped /\ (clockwise \/ counterclockwise))
        /\ o \in 1..4 => same
        /\ o \in 5..8 => swapped

\* orientation 6 on a landscape image: a portrait image, turned clockwise
C18_Witness ==
  /\ Transposed
  /\ img.orientation = Some(6)
  /\ img.pre.width = 1000 /\ img.pre.height = 480
  /\ img.image.width = 480 /\ img.image.height = 1000
  /\ img.image.tr = img.pre.tl

\* C19: a failure in the EXIF step or in the resize step of validate_image
\* never fails the call: the image is returned, not modified by the step
\* that failed; only a failure to decode or verify raises.
C19_StepsDegrade ==
  (img.phase \in {"returned", "failed"}
     /\ img.fault \in {"getexif", "transpose", "transpose2", "resize"}) =>
    /\ img.phase = "returned"
    /\ img.fault = "resize" => img.image = img.pre

\* C20: fetching the image bytes from a URL fails, and the request is
\* answered DOWNLOAD_FAILED, on a timeout, on a non-2xx response and on a
\* response whose content type is not an image; when the fetch fails no
\* later step (validation, model loading, extraction) runs for the request.
C20_FetchFailureStops ==
  \A r \in Requests :
    /\ download[r] \in {"timeout", "http_status", "not_image"} =>
         (pc[r] = "ret" /\ response[r].code = "DOWNLOAD_FAILED")
    /\ response[r].code = "DOWNLOAD_FAILED" =>
         /\ pc[r] = "ret"
         /\ tmp_file[r] = "none" /\ calls[r] = <<>>
         /\ exc[r] = NoExc /\ ~metadata[r].bound

\* a step in which validate_image raised for bytes that were obtained: the
\* handler leaves its validation stage for its return, and in clip/compare
\* the download before it had not failed
DecodeFailed(r) ==
  /\ pc'[r] = "ret"
  /\ \/ pc[r] = "validate"
     \/ pc[r] \in {"cc_await1", "cc_await2"} /\ ~DownloadFails(download'[r])

\* C21: on extract-embedding, clip/embed, clip/compare and hash/compute,
\* image bytes that were obtained but fail decoding or verification are
\* answered INVALID_IMAGE and never another error kind
C21_DecodeFailureIsInvalidImage ==
  [][\A r \in Requests : DecodeFailed(r) => response'[r].code = "INVALID_IMAGE"]_vars

\* an extract-embedding request whose call of service.extract_embedding ended
\* in _ensure_model_loaded: the load raised before a temporary file was
\* created or a backend was tried
ModelInitFailed(r) ==
  /\ pc[r] = "ret" /\ endpoint[r] = "extract_embedding"
  /\ exc[r] = ModelInitError
  /\ tmp_file[r] = "none" /\ calls[r] = <<>>

\* C22: a failure to initialize the face model during an extract-embedding
\* request is answered MODEL_ERROR and no other error kind
C22_ModelInitFailureIsModelError ==
  \A r \in Requests : ModelInitFailed(r) => response[r].code = "MODEL_ERROR"

\* the endpoints whose handlers run a pipeline
PipelineEndpoints ==
  {"extract_embedding", "compare_faces", "clip_embed", "clip_compare", "hash_compute"}

\* a compare-faces request the request schema rejected: the framework answers
\* it and the handler does not run
RejectedBySchema(r) == endpoint[r] = "compare_faces" /\ cmp.response.status = 422

StageOf(p) ==
  IF p = "idle" THEN 0
  ELSE IF p \in {"get_bytes", "await_download", "cc_await1", "cc_await2"} THEN 1
  ELSE IF p = "validate" THEN 2
  ELSE IF p = "ret" THEN 4
  ELSE 3

ImageEndpoints == {"extract_embedding", "clip_embed", "clip_compare", "hash_compute"}

\* the error codes a failure of each stage is answered with: those of the
\* image's bytes for the first two stages, the others for the third
StageCodes(n) ==
  IF n <= 2 THEN {"DOWNLOAD_FAILED", "INVALID_IMAGE"}
  ELSE ErrorCode \ {"DOWNLOAD_FAILED", "INVALID_IMAGE"}

\* the stages that may follow: the same, the next one, or the return; in
\* clip/compare validate_image runs in the step that ends the download
StagesAfter(p) ==
  IF p \in {"cc_await1", "cc_await2"} THEN {1, 3, 4}
  ELSE {StageOf(p), StageOf(p) + 1, 4}

\* request r takes a step
Moves(r) == pc'[r] # pc[r]

\* the stages of one request follow each other in order, validate_image runs
\* on bytes that were obtained, and a request that has its answer only returns
C24_StagesInOrder ==
  \A r \in Requests :
    /\ (pc[r] = "validate" => download[r] \in {"none", "image", "not_image"})
    /\ (response[r].sent => pc[r] = "ret")
    /\ (pc[r] = "ret" /\ response[r].code \in {"DOWNLOAD_FAILED", "INVALID_IMAGE"} =>
          calls[r] = <<>> /\ tmp_file[r] = "none" /\ exc[r] = NoExc)

C24_FailurePropagates ==
  \A r \in Requests :
    (endpoint'[r] \in ImageEndpoints /\ Moves(r)) =>
      /\ StageOf(pc'[r]) \in StagesAfter(pc[r])
      /\ (StageOf(pc[r]) <= 2 => UNCHANGED <<model_loaded, load_count, calls, tmp_file>>)
      /\ (response'[r].sent /\ ~response'[r].ok =>
            /\ pc'[r] = "ret"
            /\ response'[r].code \in StageCodes(StageOf(pc[r])))

\* C24: in the image endpoints the stages run in the order obtain-bytes,
\* validate_image, extract/hash; a failure of a stage is the response at once
\* and no later stage runs: no model is loaded and no backend is invoked for
\* a request whose bytes were not obtained or whose image fails validation
C24_OrderedStages ==
  []C24_StagesInOrder /\ [][C24_FailurePropagates]_vars

\* an extract-embedding request whose download timed out: it is answered
\* DOWNLOAD_FAILED, no model was loaded and no backend was tried
C24_Witness ==
  \E r \in Requests :
    /\ pc[r] = "ret" /\ endpoint[r] = "extract_embedding"
    /\ download[r] = "timeout"
    /\ response[r].code = "DOWNLOAD_FAILED"
    /\ ~model_loaded["deepface"] /\ calls[r] = <<>>

\* C25: for every well-formed hash string h, hamming_distance(h, h) is 0 and
\* hash_similarity(h, h) is 1
C25_HashIdentity ==
  (WellFormed(hsh.hash1) /\ hsh.hash2 = hsh.hash1) =>
    /\ (hsh.phase = "distance" => hsh.raised = NoExc /\ hsh.value = 0)
    /\ (hsh.phase = "similarity" => hsh.raised = NoExc /\ hsh.value = One)

\* a hash of size 4 with bits set and bits clear, compared with itself
C25_Witness ==
  /\ hsh.phase = "similarity"
  /\ hsh.hash1 = <<6, 15, 0, 6>> /\ hsh.hash2 = hsh.hash1
  /\ hsh.value = One

\* the endpoints that use no model
ModelFreeEndpoints == {"compare_faces", "hash_compute", "health", "model_info"}

\* a request that is not in flight has left nothing behind
NothingKept(r) ==
  /\ endpoint[r] = "none" /\ enforce_detection[r] = FALSE
  /\ idx[r] = 0 /\ result[r] = NoneResult /\ last_error[r] = NoExc
  /\ last_error_from[r] = 0 /\ used_backend[r] = "None" /\ calls[r] = <<>>
  /\ tmp_file[r] = "none" /\ exc[r] = NoExc /\ confident_faces[r] = <<>>
  /\ embedding[r] = 0 /\ metadata[r] = NoMetadata /\ warm[r] = NoWarm
  /\ response[r] = NoResponse /\ download[r] = "none"

C26_OnlyFlagsShared ==
  /\ \A r \in Requests : pc[r] = "idle" => NothingKept(r)
  /\ ((\A r \in Requests : endpoint[r] # "compare_faces") => cmp = NoCompare)
  /\ (cmp.phase = "answered" => cmp = CompareFacesAnswer(cmp.request))

C26_ModelFreeKeepsFlags ==
  \A r \in Requests :
    (Moves(r) /\ (endpoint[r] \in ModelFreeEndpoints \/ endpoint'[r] \in ModelFreeEndpoints))
      => UNCHANGED <<model_loaded, load_count>>

\* C26: the only state shared between requests is each model's loaded flag:
\* a request that has returned leaves nothing else behind, compare-faces,
\* hash/compute, health and model-info never change a flag, and the answer
\* of a comparison is a function of its own request
C26_SharedStateIsFlags ==
  []C26_OnlyFlagsShared /\ [][C26_ModelFreeKeepsFlags]_vars

\* a comparison answered after the face model was loaded by an earlier
\* request, while another request waits for its download
C26_Witness ==
  \E r \in Requests, r2 \in Requests :
    /\ endpoint[r] = "compare_faces" /\ pc[r] = "ret"
    /\ cmp.response.status = 200
    /\ model_loaded["deepface"]
    /\ pc[r2] = "await_download"

\* the positions in which a handler is inside a detector backend call or
\* about to make one, and those in which it runs the CLIP encoder
DetectorPcs == {"create_tmp", "save_image", "loop"}
EncoderPcs == {"clip_encode", "cc_encode1", "cc_encode2"}

\* C27: a detector backend or the CLIP encoder is invoked on a request's
\* image only while the loaded flag of its service is true
C27_InvokedOnlyWhenLoaded ==
  \A r \in Requests :
    /\ (pc[r] \in DetectorPcs => model_loaded["deepface"])
    /\ (calls[r] # <<>> => model_loaded["deepface"])
    /\ (pc[r] \in EncoderPcs => model_loaded["clip"])

\* the face model is loaded and the CLIP model is not, while a backend is
\* about to be called
C27_Witness ==
  \E r \in Requests :
    /\ pc[r] = "loop" /\ Len(calls[r]) = 1
    /\ model_loaded["deepface"] /\ ~model_loaded["clip"]

\* request r ends a load of model m with an error
LoadFailed(r, m) ==
  /\ pc[r] = LoadingPc(m) /\ Moves(r)
  /\ (exc'[r] = ModelInitError \/ warm'[r][m] = "failed")

C28_FlagSteps ==
  \A m \in Models :
    /\ (model_loaded[m] => model_loaded'[m])
    /\ ((~model_loaded[m] /\ model_loaded'[m]) =>
          \E r \in Requests :
            /\ pc[r] = LoadingPc(m) /\ pc'[r] = LoadedPc(endpoint[r], m)
            /\ ~LoadFailed(r, m)
            /\ load_count'[m] = load_count[m] + 1)
    /\ \A r \in Requests :
         /\ (LoadFailed(r, m) => ~model_loaded'[m])
         /\ ((pc[r] \in {EnsurePc(m), WarmPc(m)} /\ ~model_loaded[m] /\ Moves(r))
               => pc'[r] = LoadingPc(m))

\* C28: the loaded flag of each model service starts false, becomes true
\* only in the step that completes a load without error, never returns to
\* false, and stays false after a failed load, so that the next request that
\* needs the model starts the load again
C28_FlagMonotoneTruthful ==
  /\ \A m \in Models : ~model_loaded[m]
  /\ [](\A m \in Models : model_loaded[m] <=> load_count[m] > 0)
  /\ [][C28_FlagSteps]_vars

\* the face model failed to load for an extract-embedding request and its
\* flag is false, while the CLIP model is loaded
C28_Witness ==
  \E r \in Requests :
    /\ ModelInitFailed(r)
    /\ ~model_loaded["deepface"] /\ model_loaded["clip"]

\* C29: the temporary image file of extract_embedding exists only between
\* its creation and the end of the fallback loop, and no longer exists when
\* the call has ended: after a success at any backend, after all backends
\* failed, and after an exception while the image was saved
C29_TempFileRemoved ==
  \A r \in Requests :
    /\ (tmp_file[r] = "exists" => pc[r] \in {"save_image", "loop"})
    /\ (pc[r] \in {"save_image", "loop"} => tmp_file[r] = "exists")
    /\ (pc[r] = "ret" /\ endpoint[r] = "extract_embedding" =>
          /\ tmp_file[r] \in {"none", "deleted"}
          /\ (tmp_file[r] = "none" => calls[r] = <<>> /\ result[r] = NoneResult))

\* the call ended with the exception image.save raised, and the file is gone
C29_Witness ==
  \E r \in Requests :
    /\ pc[r] = "ret" /\ endpoint[r] = "extract_embedding"
    /\ calls[r] = <<>> /\ exc[r] \in SaveErrors
    /\ tmp_file[r] = "deleted"

WarmStatuses == {"already_loaded", "loaded", "failed"}

\* what a warm-up request returns
C30_WarmUpReport ==
  \A r \in Requests :
    (pc[r] = "ret" /\ endpoint[r] = "warm_up") =>
      /\ response[r].sent /\ response[r].ok
      /\ \A m \in Models :
           /\ warm[r][m] \in WarmStatuses
           /\ (warm[r][m] \in {"loaded", "already_loaded"} => model_loaded[m])

\* the steps of a warm-up request
C30_WarmUpSteps ==
  \A r \in Requests, m \in Models :
    (endpoint[r] = "warm_up" /\ Moves(r)) =>
      /\ ((pc[r] = WarmPc(m) /\ model_loaded[m]) =>
            warm'[r][m] = "already_loaded" /\ UNCHANGED <<model_loaded, load_count>>)
      /\ (warm[r][m] = "already_loaded" => load_count'[m] = load_count[m])
      /\ (LoadFailed(r, "deepface") =>
            warm'[r]["deepface"] = "failed" /\ pc'[r] = WarmPc("clip"))

\* C30: a warm-up request always returns a status for both models; a model
\* already loaded is reported already_loaded and is not loaded again; a
\* DeepFace load failure is reported failed and the CLIP model is still
\* attempted; loaded and already_loaded are reported only for a model whose
\* flag is true when the request ends
C30_WarmUp ==
  []C30_WarmUpReport /\ [][C30_WarmUpSteps]_vars

\* a warm-up whose DeepFace load failed and whose CLIP load completed
C30_Witness ==
  \E r \in Requests :
    /\ pc[r] = "ret" /\ endpoint[r] = "warm_up"
    /\ warm[r]["deepface"] = "failed" /\ warm[r]["clip"] = "loaded"
    /\ ~model_loaded["deepface"] /\ model_loaded["clip"]
====
